---------------------------- MODULE Spec2Model ----------------------------
(***************************************************************************)
(* A model of copt's interactive terminal application (src/src/tui).       *)
(*                                                                         *)
(* Part 1, the Terminal Lifecycle Manager (tui/terminal.rs) as it is used  *)
(* by the Application Driver (tui/app.rs, run_interactive): the loop       *)
(* thread, the ctrlc handler thread and the panic hook, each a sequence of *)
(* steps that interleave.  Every call into the terminal (crossterm) is one *)
(* step and may succeed or fail; a failed call to leave a mode leaves the  *)
(* terminal in that mode.                                                  *)
(*                                                                         *)
(* Part 2, the Result Tree (tui/model.rs, IssueTree) and the Main view's   *)
(* navigation keys (tui/update.rs, handle_main_keys).                      *)
(***************************************************************************)
EXTENDS Integers, Sequences, FiniteSets, TLC

VARIABLES
    TERMINAL_RAW,      \* terminal.rs:19, the raw-mode-active flag (AtomicBool)
    rawMode,           \* the terminal device is in raw mode
    altScreen,         \* the terminal shows the alternate screen (mouse capture is
                       \* switched by the same execute! batch and travels with it)
    pc,                \* pc[t]: where thread t is; t is "main" or "sig"
    ret,               \* ret[t]: where thread t's running call of restore() returns to
    harness,           \* TRUE: the main thread is the unit-test driver, FALSE: run_interactive
    hookInstalled,     \* install_panic_hook has replaced the panic hook
    guardLive,         \* run_interactive's _guard exists and has not been dropped
    should_quit,       \* model.should_quit
    result,            \* what run_interactive returned: "none", "ok", "err"
    exitStatus,        \* "running", or the status the process ended with
    leaveCount,        \* history: restore() calls that issued the leave sequence since init()
    restoreCalls,      \* history: restore() calls completed since init() was last called
    restoreFault,      \* history: a terminal call made by restore() failed
    afterFirst,        \* history: the observable state when the first of them completed
    hookIssued,        \* history: the panic hook's restore() was the one that won the flag
    testCalls,         \* harness: calls of restore() the driver has made
    testInits,         \* harness: calls of init() the driver has made
    issues,            \* the issue list last given to from_issues (category keys)
    categories,        \* issue_tree.categories: sequence of [category, issues, expanded]
    flat_index,        \* issue_tree.flat_index
    lastKey,           \* history of the result tree's specification: the navigation
                       \* key the last step handled, "none" when it built the tree
    issue_ids,         \* the ids of the issues last given to set_issues, in list order
    current_view,      \* model.current_view: "Main", "Diff", "Help"
    phase,             \* model.phase
    optimized_prompt,  \* model.optimized_prompt: "None" or "Some"
    stats,             \* model.stats: "None" or "Some"
    error,             \* model.error: "None" or "Some"
    scroll_offset,     \* model.scroll_offset (u16)
    terminal_width,    \* model.terminal_width
    terminal_height,   \* model.terminal_height
    suggest_modal,     \* model.suggest_modal: [suggestions, selections, cursor, visible,
                       \* trigger_issues]
    original_prompt,   \* model.original_prompt, a sequence of characters
    status_message,    \* model.status_message: "None" or the message shown
    status_clear_at,   \* model.status_clear_at: {} for None, {t} for Some(t)
    now,               \* the clock Instant::now() reads, in seconds
    redraw,            \* what the last call of update() returned
    lastOp,            \* history: the operation the last step applied to the Model:
                       \* "new", a step of main.rs, "update" for an event, or
                       \* "clear_error" for the key that dismissed the error
    frame,             \* the frame the last call of render() drew: its area and the
                       \* layouts and overlays drawn on it, in drawing order
    args,              \* the arguments of the current call of detect_render_mode
    mode,              \* what that call returned, "unset" before it returns
    calls              \* calls of detect_render_mode made so far

termVars == <<TERMINAL_RAW, rawMode, altScreen, pc, ret, harness, hookInstalled,
              guardLive, should_quit, result, exitStatus, leaveCount, restoreCalls,
              restoreFault, afterFirst, hookIssued, testCalls, testInits>>
treeVars == <<issues, categories, flat_index, lastKey>>
modelVars == <<issue_ids, current_view, phase, optimized_prompt, stats, error,
               scroll_offset, terminal_width, terminal_height, suggest_modal,
               original_prompt, status_message, status_clear_at, now, redraw, lastOp,
               frame, args, mode, calls>>
\* What render() and detect_render_mode leave.
viewVars == <<frame, args, mode, calls>>
\* The terminal lifecycle's variables, model.should_quit apart.
procVars == <<TERMINAL_RAW, rawMode, altScreen, pc, ret, harness, hookInstalled,
              guardLive, result, exitStatus, leaveCount, restoreCalls,
              restoreFault, afterFirst, hookIssued, testCalls, testInits>>
vars == <<termVars, treeVars, modelVars>>

Threads == {"main", "sig"}

\* What a caller of restore() can observe of the terminal.
Obs == <<TERMINAL_RAW, rawMode, altScreen>>

----------------------------------------------------------------------------
(* Bounds *)

\* Calls of restore() the unit-test driver makes (test_restore_is_idempotent makes 3).
MaxRestoreCalls == 3

\* The longest issue list given to from_issues.
MaxIssues == 3

\* The number of distinct category keys.  A key k stands for a category name, and
\* k < l for the names' order under String::cmp.
NumCats == 3

\* The entries of ROLE_SUGGESTIONS and of OPENENDED_SUGGESTIONS that are kept (the
\* tables have 5 and 3).
NumRole == 2
NumOpen == 1

\* No key is pressed that would scroll past this offset.
MaxScroll == 1

\* The clock stops at this many seconds; the longest status message lasts 5.
MaxTime == 6

\* Calls of detect_render_mode the unit tests make in a row.
MaxCalls == 4

\* u16::MAX, where scroll_offset saturates (model.rs:241)
U16_MAX == 65535

----------------------------------------------------------------------------
(* terminal.rs *)

Goto(t, loc) == pc' = [pc EXCEPT ![t] = loc]

\* A call of restore() by thread t returns to its caller.
RestoreReturn(t) ==
    /\ Goto(t, ret[t])
    /\ restoreCalls' = restoreCalls + 1
    /\ afterFirst' = IF restoreCalls = 0 THEN <<TERMINAL_RAW', rawMode', altScreen'>>
                     ELSE afterFirst

\* restore() reading the flag without clearing it (a load where the code swaps).
RestoreLoad(t) ==
    /\ exitStatus = "running"
    /\ pc[t] = "restore_swap"
    /\ UNCHANGED <<TERMINAL_RAW, rawMode, altScreen>>
    /\ IF TERMINAL_RAW
         THEN /\ Goto(t, "restore_disable")
              /\ UNCHANGED <<restoreCalls, afterFirst>>
         ELSE RestoreReturn(t)
    /\ UNCHANGED <<ret, harness, hookInstalled, guardLive, should_quit, result,
                   exitStatus, leaveCount, restoreFault, hookIssued, testCalls,
                   testInits, treeVars, modelVars>>

\* terminal.rs:45  if TERMINAL_RAW.swap(false, SeqCst) { ... }
RestoreSwap(t) ==
    /\ exitStatus = "running"
    /\ pc[t] = "restore_swap"
    /\ TERMINAL_RAW' = FALSE
    /\ UNCHANGED <<rawMode, altScreen>>
    /\ IF TERMINAL_RAW
         THEN /\ Goto(t, "restore_disable")
              /\ hookIssued' = (hookIssued \/ (t = "main" /\ ret[t] = "orig_hook"))
              /\ UNCHANGED <<restoreCalls, afterFirst>>
         ELSE /\ RestoreReturn(t)
              /\ UNCHANGED hookIssued
    /\ UNCHANGED <<ret, harness, hookInstalled, guardLive, should_quit, result,
                   exitStatus, leaveCount, restoreFault, testCalls, testInits, treeVars, modelVars>>

\* terminal.rs:46  let _ = disable_raw_mode();
RestoreDisable(t) ==
    /\ exitStatus = "running"
    /\ pc[t] = "restore_disable"
    /\ \E ok \in BOOLEAN :
          /\ rawMode' = IF ok THEN FALSE ELSE rawMode
          /\ restoreFault' = (restoreFault \/ ~ok)
    /\ leaveCount' = leaveCount + 1
    /\ Goto(t, "restore_leave")
    /\ UNCHANGED <<TERMINAL_RAW, altScreen, ret, harness, hookInstalled, guardLive,
                   should_quit, result, exitStatus, restoreCalls, afterFirst,
                   hookIssued, testCalls, testInits, treeVars, modelVars>>

\* terminal.rs:47-51  let _ = execute!(io::stdout(), LeaveAlternateScreen, DisableMouseCapture);
RestoreLeave(t) ==
    /\ exitStatus = "running"
    /\ pc[t] = "restore_leave"
    /\ \E ok \in BOOLEAN :
          /\ altScreen' = IF ok THEN FALSE ELSE altScreen
          /\ restoreFault' = (restoreFault \/ ~ok)
    /\ UNCHANGED <<TERMINAL_RAW, rawMode>>
    /\ RestoreReturn(t)
    /\ UNCHANGED <<ret, harness, hookInstalled, guardLive, should_quit, result,
                   exitStatus, leaveCount, hookIssued, testCalls, testInits, treeVars, modelVars>>

----------------------------------------------------------------------------
(* terminal.rs: init, the panic hook, the signal handler *)

\* init() returns Err: the driver gets the error back; in run_interactive the `?`
\* of app.rs:26 returns it, which drops _guard (terminal.rs:102-106).
InitErr ==
    IF harness
      THEN /\ Goto("main", "test")
           /\ UNCHANGED <<ret, guardLive, result>>
      ELSE /\ Goto("main", "restore_swap")
           /\ ret' = [ret EXCEPT !["main"] = "returned"]
           /\ guardLive' = FALSE
           /\ result' = "err"

\* terminal.rs:28  enable_raw_mode()?;
InitEnableRaw ==
    /\ exitStatus = "running"
    /\ pc["main"] = "enable_raw"
    /\ \E ok \in BOOLEAN :
          IF ok THEN /\ rawMode' = TRUE
                     /\ Goto("main", "store_flag")
                     /\ UNCHANGED <<ret, guardLive, result>>
                ELSE /\ UNCHANGED rawMode
                     /\ InitErr
    /\ UNCHANGED <<TERMINAL_RAW, altScreen, harness, hookInstalled, should_quit,
                   exitStatus, leaveCount, restoreCalls, restoreFault, afterFirst,
                   hookIssued, testCalls, testInits, treeVars, modelVars>>

\* terminal.rs:29  TERMINAL_RAW.store(true, SeqCst);
InitStoreFlag ==
    /\ exitStatus = "running"
    /\ pc["main"] = "store_flag"
    /\ TERMINAL_RAW' = TRUE
    /\ Goto("main", "enter_alt")
    /\ UNCHANGED <<rawMode, altScreen, ret, harness, hookInstalled, guardLive,
                   should_quit, result, exitStatus, leaveCount, restoreCalls,
                   restoreFault, afterFirst, hookIssued, testCalls, testInits, treeVars, modelVars>>

\* terminal.rs:31-32  execute!(stdout, EnterAlternateScreen, EnableMouseCapture)?;
\* A failed execute! may have written the escape sequence before the error.
InitEnterAlt ==
    /\ exitStatus = "running"
    /\ pc["main"] = "enter_alt"
    /\ \E ok \in BOOLEAN :
          IF ok THEN /\ altScreen' = TRUE
                     /\ Goto("main", "terminal_new")
                     /\ UNCHANGED <<ret, guardLive, result>>
                ELSE /\ altScreen' \in {altScreen, TRUE}
                     /\ InitErr
    /\ UNCHANGED <<TERMINAL_RAW, rawMode, harness, hookInstalled, should_quit,
                   exitStatus, leaveCount, restoreCalls, restoreFault, afterFirst,
                   hookIssued, testCalls, testInits, treeVars, modelVars>>

\* terminal.rs:34-37  let terminal = Terminal::new(backend)?; Ok(terminal)
InitTerminalNew ==
    /\ exitStatus = "running"
    /\ pc["main"] = "terminal_new"
    /\ \E ok \in BOOLEAN :
          IF ok THEN /\ Goto("main", IF harness THEN "test" ELSE "size")
                     /\ UNCHANGED <<ret, guardLive, result>>
                ELSE InitErr
    /\ UNCHANGED <<TERMINAL_RAW, rawMode, altScreen, harness, hookInstalled,
                   should_quit, exitStatus, leaveCount, restoreCalls, restoreFault,
                   afterFirst, hookIssued, testCalls, testInits, treeVars, modelVars>>

\* A hook that goes to the original hook without calling restore().
PanicHookNoRestore ==
    /\ Goto("main", "orig_hook")
    /\ UNCHANGED <<TERMINAL_RAW, rawMode, altScreen, ret, harness, hookInstalled,
                   guardLive, should_quit, result, exitStatus, leaveCount,
                   restoreCalls, restoreFault, afterFirst, hookIssued, testCalls,
                   testInits, treeVars, modelVars>>

\* terminal.rs:58-64  panic::set_hook(Box::new(move |info| { restore(); original_hook(info); }))
\* A panic on the loop thread runs the installed hook: restore() first, then the
\* original hook.  UnchangedByPanic is what the panicking step leaves alone.
PanicHook ==
    /\ IF hookInstalled
         THEN /\ Goto("main", "restore_swap")
              /\ ret' = [ret EXCEPT !["main"] = "orig_hook"]
         ELSE /\ Goto("main", "orig_hook")
              /\ UNCHANGED ret
    /\ UNCHANGED <<TERMINAL_RAW, rawMode, altScreen, harness, hookInstalled,
                   guardLive, should_quit, result, exitStatus, leaveCount,
                   restoreCalls, restoreFault, afterFirst, hookIssued, testCalls,
                   testInits, treeVars, modelVars>>

\* terminal.rs:62  original_hook(panic_info): the default hook prints the message;
\* unwinding then drops run_interactive's locals, _guard among them
\* (terminal.rs:102-106), and the panic ends the process with status 101.
OriginalHook ==
    /\ exitStatus = "running"
    /\ pc["main"] = "orig_hook"
    /\ IF guardLive
         THEN /\ Goto("main", "restore_swap")
              /\ ret' = [ret EXCEPT !["main"] = "unwound"]
              /\ guardLive' = FALSE
         ELSE /\ Goto("main", "unwound")
              /\ UNCHANGED <<ret, guardLive>>
    /\ UNCHANGED <<TERMINAL_RAW, rawMode, altScreen, harness, hookInstalled,
                   should_quit, result, exitStatus, leaveCount, restoreCalls,
                   restoreFault, afterFirst, hookIssued, testCalls, testInits, treeVars, modelVars>>

PanicExit ==
    /\ exitStatus = "running"
    /\ pc["main"] = "unwound"
    /\ exitStatus' = "101"
    /\ UNCHANGED <<TERMINAL_RAW, rawMode, altScreen, pc, ret, harness, hookInstalled,
                   guardLive, should_quit, result, leaveCount, restoreCalls,
                   restoreFault, afterFirst, hookIssued, testCalls, testInits, treeVars, modelVars>>

\* terminal.rs:58-64  install_panic_hook (called at terminal.rs:84)
InstallPanicHook ==
    /\ exitStatus = "running"
    /\ pc["main"] = "install_panic_hook"
    /\ hookInstalled' = TRUE
    /\ Goto("main", "install_signal_handlers")
    /\ UNCHANGED <<TERMINAL_RAW, rawMode, altScreen, ret, harness, guardLive,
                   should_quit, result, exitStatus, leaveCount, restoreCalls,
                   restoreFault, afterFirst, hookIssued, testCalls, testInits, treeVars, modelVars>>

\* An init_safety that goes on to the guard and init() when set_handler fails.
InstallSignalHandlersIgnoreErr ==
    /\ exitStatus = "running"
    /\ pc["main"] = "install_signal_handlers"
    /\ \E ok \in BOOLEAN :
          pc' = [pc EXCEPT !["main"] = "guard_new",
                           !["sig"] = IF ok THEN "wait" ELSE "off"]
    /\ UNCHANGED <<TERMINAL_RAW, rawMode, altScreen, ret, harness, hookInstalled,
                   guardLive, should_quit, result, exitStatus, leaveCount,
                   restoreCalls, restoreFault, afterFirst, hookIssued, testCalls,
                   testInits, treeVars, modelVars>>

\* terminal.rs:69-78  ctrlc::set_handler(move || { restore(); exit(130) })...?
\* On success ctrlc's thread waits for a signal; on failure init_safety()? returns
\* the error out of run_interactive (app.rs:20), before _guard exists.
InstallSignalHandlers ==
    /\ exitStatus = "running"
    /\ pc["main"] = "install_signal_handlers"
    /\ \E ok \in BOOLEAN :
          IF ok THEN /\ pc' = [pc EXCEPT !["main"] = "guard_new", !["sig"] = "wait"]
                     /\ UNCHANGED result
                ELSE /\ Goto("main", "returned")
                     /\ result' = "err"
    /\ UNCHANGED <<TERMINAL_RAW, rawMode, altScreen, ret, harness, hookInstalled,
                   guardLive, should_quit, exitStatus, leaveCount, restoreCalls,
                   restoreFault, afterFirst, hookIssued, testCalls, testInits, treeVars, modelVars>>

\* An interrupt signal is delivered: ctrlc's thread runs the handler, whose first
\* statement is restore() (terminal.rs:72).
Signal ==
    /\ exitStatus = "running"
    /\ pc["sig"] = "wait"
    /\ Goto("sig", "restore_swap")
    /\ ret' = [ret EXCEPT !["sig"] = "exit"]
    /\ UNCHANGED <<TERMINAL_RAW, rawMode, altScreen, harness, hookInstalled,
                   guardLive, should_quit, result, exitStatus, leaveCount,
                   restoreCalls, restoreFault, afterFirst, hookIssued, testCalls,
                   testInits, treeVars, modelVars>>

\* terminal.rs:73  std::process::exit(130)
HandlerExit ==
    /\ exitStatus = "running"
    /\ pc["sig"] = "exit"
    /\ exitStatus' = "130"
    /\ UNCHANGED <<TERMINAL_RAW, rawMode, altScreen, pc, ret, harness, hookInstalled,
                   guardLive, should_quit, result, leaveCount, restoreCalls,
                   restoreFault, afterFirst, hookIssued, testCalls, testInits, treeVars, modelVars>>

----------------------------------------------------------------------------
(* app.rs: run_interactive *)

\* run_interactive returns r: its locals are dropped, `terminal` first and _guard
\* last, and _guard's drop calls restore() (terminal.rs:102-106).
ReturnWith(r) ==
    /\ Goto("main", "restore_swap")
    /\ ret' = [ret EXCEPT !["main"] = "returned"]
    /\ guardLive' = FALSE
    /\ result' = r

\* app.rs:23  let _guard = terminal::TerminalGuard::new();  then app.rs:26 calls init()
GuardNew ==
    /\ exitStatus = "running"
    /\ pc["main"] = "guard_new"
    /\ guardLive' = TRUE
    /\ Goto("main", "enable_raw")
    /\ UNCHANGED <<TERMINAL_RAW, rawMode, altScreen, ret, harness, hookInstalled,
                   should_quit, result, exitStatus, leaveCount, restoreCalls,
                   restoreFault, afterFirst, hookIssued, testCalls, testInits, treeVars, modelVars>>

\* app.rs:29-31  let size = terminal.size()?;
TerminalSize ==
    /\ exitStatus = "running"
    /\ pc["main"] = "size"
    /\ \E ok \in BOOLEAN :
          IF ok THEN /\ Goto("main", "draw")
                     /\ UNCHANGED <<ret, guardLive, result>>
                ELSE ReturnWith("err")
    /\ UNCHANGED should_quit
    /\ UNCHANGED <<TERMINAL_RAW, rawMode, altScreen, harness, hookInstalled,
                   exitStatus, leaveCount, restoreCalls, restoreFault, afterFirst,
                   hookIssued, testCalls, testInits, treeVars, modelVars>>

\* app.rs:36  terminal.draw(|frame| render(frame, model))?;
Draw ==
    /\ exitStatus = "running"
    /\ pc["main"] = "draw"
    /\ \E ok \in BOOLEAN :
          IF ok THEN /\ Goto("main", "poll")
                     /\ UNCHANGED <<ret, guardLive, result>>
                ELSE ReturnWith("err")
    /\ UNCHANGED should_quit
    /\ UNCHANGED <<TERMINAL_RAW, rawMode, altScreen, harness, hookInstalled,
                   exitStatus, leaveCount, restoreCalls, restoreFault, afterFirst,
                   hookIssued, testCalls, testInits, treeVars, modelVars>>

\* A panic while rendering (app.rs:36) or while handling an event (app.rs:42,45).
Panic ==
    /\ exitStatus = "running"
    /\ pc["main"] \in {"draw", "update"}
    /\ PanicHook

\* app.rs:39  if event::poll(Duration::from_millis(100))? { ... }
Poll ==
    /\ exitStatus = "running"
    /\ pc["main"] = "poll"
    /\ \E r \in {"event", "timeout", "err"} :
          IF r = "err" THEN ReturnWith("err")
          ELSE /\ Goto("main", IF r = "event" THEN "read" ELSE "check_quit")
               /\ UNCHANGED <<ret, guardLive, result>>
    /\ UNCHANGED should_quit
    /\ UNCHANGED <<TERMINAL_RAW, rawMode, altScreen, harness, hookInstalled,
                   exitStatus, leaveCount, restoreCalls, restoreFault, afterFirst,
                   hookIssued, testCalls, testInits, treeVars, modelVars>>

\* app.rs:40-48  match event::read()? { Key press | Resize => update(..), _ => {} }
Read ==
    /\ exitStatus = "running"
    /\ pc["main"] = "read"
    /\ \E r \in {"msg", "other", "err"} :
          IF r = "err" THEN ReturnWith("err")
          ELSE /\ Goto("main", IF r = "msg" THEN "update" ELSE "check_quit")
               /\ UNCHANGED <<ret, guardLive, result>>
    /\ UNCHANGED should_quit
    /\ UNCHANGED <<TERMINAL_RAW, rawMode, altScreen, harness, hookInstalled,
                   exitStatus, leaveCount, restoreCalls, restoreFault, afterFirst,
                   hookIssued, testCalls, testInits, treeVars, modelVars>>

\* app.rs:42,45  update(model, msg): a quit key sets model.should_quit
\* (update.rs:77-84), nothing resets it.
Update ==
    /\ exitStatus = "running"
    /\ pc["main"] = "update"
    /\ \E quitKey \in BOOLEAN : should_quit' = (should_quit \/ quitKey)
    /\ Goto("main", "check_quit")
    /\ UNCHANGED <<ret, guardLive, result>>
    /\ UNCHANGED <<TERMINAL_RAW, rawMode, altScreen, harness, hookInstalled,
                   exitStatus, leaveCount, restoreCalls, restoreFault, afterFirst,
                   hookIssued, testCalls, testInits, treeVars, modelVars>>

\* A loop that goes on to the next frame whatever the quit flag is.
CheckQuitNever ==
    /\ exitStatus = "running"
    /\ pc["main"] = "check_quit"
    /\ Goto("main", "draw")
    /\ UNCHANGED <<ret, guardLive, result>>
    /\ UNCHANGED should_quit
    /\ UNCHANGED <<TERMINAL_RAW, rawMode, altScreen, harness, hookInstalled,
                   exitStatus, leaveCount, restoreCalls, restoreFault, afterFirst,
                   hookIssued, testCalls, testInits, treeVars, modelVars>>

\* app.rs:52-59  if model.should_quit { break; } ... Ok(())
CheckQuit ==
    /\ exitStatus = "running"
    /\ pc["main"] = "check_quit"
    /\ IF should_quit THEN ReturnWith("ok")
       ELSE /\ Goto("main", "draw")
            /\ UNCHANGED <<ret, guardLive, result>>
    /\ UNCHANGED should_quit
    /\ UNCHANGED <<TERMINAL_RAW, rawMode, altScreen, harness, hookInstalled,
                   exitStatus, leaveCount, restoreCalls, restoreFault, afterFirst,
                   hookIssued, testCalls, testInits, treeVars, modelVars>>

\* main.rs:783-810  after run_interactive has returned the process runs on to its
\* end: status 0, or 1 when main returns the error.
MainExit ==
    /\ exitStatus = "running"
    /\ pc["main"] = "returned"
    /\ exitStatus' = IF result = "ok" THEN "0" ELSE "1"
    /\ UNCHANGED <<TERMINAL_RAW, rawMode, altScreen, pc, ret, harness, hookInstalled,
                   guardLive, should_quit, result, leaveCount, restoreCalls,
                   restoreFault, afterFirst, hookIssued, testCalls, testInits, treeVars, modelVars>>

----------------------------------------------------------------------------
(* terminal.rs:114-131: the unit tests' way of driving init() and restore(), one  *)
(* call after the other on one thread.                                            *)

\* The driver calls restore() (terminal.rs:121-123).
TestRestore ==
    /\ harness
    /\ pc["main"] = "test"
    /\ testCalls < MaxRestoreCalls
    /\ testCalls' = testCalls + 1
    /\ Goto("main", "restore_swap")
    /\ ret' = [ret EXCEPT !["main"] = "test"]
    /\ UNCHANGED <<TERMINAL_RAW, rawMode, altScreen, harness, hookInstalled,
                   guardLive, should_quit, result, exitStatus, leaveCount,
                   restoreCalls, restoreFault, afterFirst, hookIssued, testInits,
                   treeVars, modelVars>>

\* The driver calls init(), as the program does once (app.rs:26).
TestInit ==
    /\ harness
    /\ pc["main"] = "test"
    /\ testInits = 0
    /\ testInits' = 1
    /\ Goto("main", "enable_raw")
    /\ leaveCount' = 0
    /\ restoreCalls' = 0
    /\ restoreFault' = FALSE
    /\ afterFirst' = <<>>
    /\ UNCHANGED <<TERMINAL_RAW, rawMode, altScreen, ret, harness, hookInstalled,
                   guardLive, should_quit, result, exitStatus, hookIssued, testCalls,
                   treeVars, modelVars>>

----------------------------------------------------------------------------
(* Specifications of the terminal lifecycle *)

\* SuggestModalState::default() (suggest_modal.rs:16, derive(Default))
SuggestModalDefault ==
    [suggestions |-> <<>>, selections |-> <<>>, cursor |-> 0, visible |-> FALSE,
     trigger_issues |-> <<>>]

\* detect_render_mode has not been called: its arguments when they do not matter.
NoArgs == [interactive |-> FALSE, quiet |-> FALSE, format_json |-> FALSE,
           is_tty |-> FALSE]

\* Model::new() (model.rs:260-281) and the process before run_interactive
InitCommon ==
    /\ TERMINAL_RAW = FALSE
    /\ rawMode = FALSE
    /\ altScreen = FALSE
    /\ ret = [t \in Threads |-> "none"]
    /\ hookInstalled = FALSE
    /\ guardLive = FALSE
    /\ should_quit = FALSE
    /\ result = "none"
    /\ exitStatus = "running"
    /\ leaveCount = 0
    /\ restoreCalls = 0
    /\ restoreFault = FALSE
    /\ afterFirst = <<>>
    /\ hookIssued = FALSE
    /\ testCalls = 0
    /\ testInits = 0
    /\ issues = <<>>
    /\ categories = <<>>
    /\ flat_index = 0
    /\ lastKey = "none"
    /\ issue_ids = <<>>
    /\ current_view = "Main"
    /\ phase = "Ready"
    /\ optimized_prompt = "None"
    /\ stats = "None"
    /\ error = "None"
    /\ scroll_offset = 0
    /\ terminal_width = 80
    /\ terminal_height = 24
    /\ suggest_modal = SuggestModalDefault
    /\ status_message = "None"
    /\ status_clear_at = {}
    /\ now = 0
    /\ redraw = FALSE
    /\ lastOp = "new"
    /\ frame = [area |-> <<0, 0>>, drawn |-> <<>>]
    /\ mode = "unset"
    /\ calls = 0

\* The process as main.rs:783 enters run_interactive.
InitTerm ==
    /\ InitCommon
    /\ args = NoArgs
    /\ original_prompt = <<>>
    /\ harness = FALSE
    /\ pc = [t \in Threads |-> IF t = "main" THEN "install_panic_hook" ELSE "off"]

NextTerm ==
    \/ InstallPanicHook
    \/ InstallSignalHandlers
    \/ GuardNew
    \/ InitEnableRaw
    \/ InitStoreFlag
    \/ InitEnterAlt
    \/ InitTerminalNew
    \/ TerminalSize
    \/ Draw
    \/ Poll
    \/ Read
    \/ Update
    \/ CheckQuit
    \/ Panic
    \/ OriginalHook
    \/ PanicExit
    \/ MainExit
    \/ Signal
    \/ HandlerExit
    \/ \E t \in Threads : RestoreSwap(t)
    \/ \E t \in Threads : RestoreDisable(t)
    \/ \E t \in Threads : RestoreLeave(t)

SpecTerm == InitTerm /\ [][NextTerm]_vars

\* The steps of the loop thread: run_interactive, and restore() when the loop
\* thread calls it.
MainNext ==
    \/ InstallPanicHook
    \/ InstallSignalHandlers
    \/ GuardNew
    \/ InitEnableRaw
    \/ InitStoreFlag
    \/ InitEnterAlt
    \/ InitTerminalNew
    \/ TerminalSize
    \/ Draw
    \/ Poll
    \/ Read
    \/ Update
    \/ CheckQuit
    \/ OriginalHook
    \/ PanicExit
    \/ MainExit
    \/ RestoreSwap("main")
    \/ RestoreDisable("main")
    \/ RestoreLeave("main")

\* run_interactive on a loop thread that keeps running: the thread is scheduled
\* again and again, and every call it makes returns (poll returns within its
\* 100 ms, app.rs:39).  Nothing is assumed of the signal or of a panic.
SpecTermFair == SpecTerm /\ WF_vars(MainNext)

\* The unit-test driver: no hook, no handler thread, no guard.
InitRestore ==
    /\ InitCommon
    /\ args = NoArgs
    /\ original_prompt = <<>>
    /\ harness = TRUE
    /\ pc = [t \in Threads |-> IF t = "main" THEN "test" ELSE "off"]

NextRestore ==
    \/ TestRestore
    \/ TestInit
    \/ InitEnableRaw
    \/ InitStoreFlag
    \/ InitEnterAlt
    \/ InitTerminalNew
    \/ RestoreSwap("main")
    \/ RestoreDisable("main")
    \/ RestoreLeave("main")

SpecRestore == InitRestore /\ [][NextRestore]_vars

----------------------------------------------------------------------------
(* model.rs: IssueTree.  An issue list is a sequence of category keys; the issue  *)
(* at position i of the list is written i.  CategoryNode's display_name is a       *)
(* function of its category alone (model.rs:68) and is left out.                   *)

IssueLists == UNION {[1..n -> 1..NumCats] : n \in 0..MaxIssues}

CategoryKeys(iss) == {iss[i] : i \in DOMAIN iss}

\* The orders in which a HashMap with keys S may hand out its entries (model.rs:106-107).
HashOrders(S) ==
    {o \in [1..Cardinality(S) -> S] : \A i, j \in DOMAIN o : i # j => o[i] # o[j]}

\* model.rs:67-75  CategoryNode::new
CategoryNode(cat, iss) == [category |-> cat, issues |-> iss, expanded |-> TRUE]

\* model.rs:97-103  grouped.entry(category).or_default().push(issue): the issues of
\* category cat, in the order of the list.
Grouped(iss, cat) ==
    SelectSeq([i \in 1..Len(iss) |-> i], LAMBDA i : iss[i] = cat)

\* Vec::sort_by is stable: x goes behind the nodes that do not compare greater.
RECURSIVE InsertByCategory(_, _)
InsertByCategory(sorted, x) ==
    IF sorted = <<>> THEN <<x>>
    ELSE IF Head(sorted).category <= x.category
         THEN <<Head(sorted)>> \o InsertByCategory(Tail(sorted), x)
         ELSE <<x>> \o sorted

RECURSIVE SortFrom(_, _)
SortFrom(nodes, sorted) ==
    IF nodes = <<>> THEN sorted
    ELSE SortFrom(Tail(nodes), InsertByCategory(sorted, Head(nodes)))

\* The nodes left in the order the HashMap handed them out.
Unsorted(nodes) == nodes

\* model.rs:110  categories.sort_by(|a, b| a.category.cmp(&b.category));
SortByCategory(nodes) == SortFrom(nodes, <<>>)

\* model.rs:93-117  IssueTree::from_issues; order is the HashMap's iteration order.
FromIssues(iss, order) ==
    [categories |-> SortByCategory([k \in 1..Len(order) |->
                                       CategoryNode(order[k], Grouped(iss, order[k]))]),
     flat_index |-> 0]

\* The length with every category counted as expanded, whatever its flag.
RECURSIVE FlatLenAllExpanded(_)
FlatLenAllExpanded(cats) ==
    IF cats = <<>> THEN 0
    ELSE 1 + Len(Head(cats).issues) + FlatLenAllExpanded(Tail(cats))

\* model.rs:120-125  IssueTree::flat_len
RECURSIVE FlatLen(_)
FlatLen(cats) ==
    IF cats = <<>> THEN 0
    ELSE (1 + IF Head(cats).expanded THEN Len(Head(cats).issues) ELSE 0)
         + FlatLen(Tail(cats))

\* The loop shared by is_category_at, toggle_current and is_current_category_expanded
\* (model.rs:129-139, 144-154, 366-376): the position of the category whose header
\* is row flat_idx, 0 when the loop ends without finding one.
RECURSIVE HeaderAt(_, _, _, _)
HeaderAt(cats, k, idx, flat_idx) ==
    IF k > Len(cats) THEN 0
    ELSE IF idx = flat_idx THEN k
    ELSE HeaderAt(cats, k + 1,
                  idx + 1 + (IF cats[k].expanded THEN Len(cats[k].issues) ELSE 0),
                  flat_idx)

\* model.rs:128-140  IssueTree::is_category_at
IsCategoryAt(cats, flat_idx) == HeaderAt(cats, 1, 0, flat_idx) # 0

\* A toggle that flips every category.
ToggleEvery(cats, fi) ==
    [k \in 1..Len(cats) |-> [cats[k] EXCEPT !.expanded = ~@]]

\* model.rs:143-155  IssueTree::toggle_current
ToggleCurrent(cats, fi) ==
    LET k == HeaderAt(cats, 1, 0, fi)
    IN  IF k = 0 THEN cats ELSE [cats EXCEPT ![k].expanded = ~@]

\* model.rs:158-162  IssueTree::select_prev
SelectPrev(fi) == IF fi > 0 THEN fi - 1 ELSE fi

\* usize::saturating_sub
SaturatingSub(a, b) == IF a >= b THEN a - b ELSE 0

\* A select_next that goes back to row 0 from the last row.
SelectNextWrap(cats, fi) ==
    IF fi < SaturatingSub(FlatLen(cats), 1) THEN fi + 1 ELSE 0

\* A select_next that compares with flat_len() instead of flat_len() - 1.
SelectNextPastEnd(cats, fi) ==
    IF fi < FlatLen(cats) THEN fi + 1 ELSE fi

\* model.rs:165-169  IssueTree::select_next
SelectNext(cats, fi) ==
    IF fi < SaturatingSub(FlatLen(cats), 1) THEN fi + 1 ELSE fi

----------------------------------------------------------------------------
(* Key events.  A key is named by its code; "Ctrl+c", "Ctrl+q" and "Ctrl+a"   *)
(* are the codes c, q and a pressed with the Control modifier, every other    *)
(* key is pressed with no modifier.                                           *)

Keys == {"Up", "Down", "k", "j", "Enter", "Esc", "Space", "a", "n", "q", "c", "d",
         "s", "e", "r", "?", "PageUp", "PageDown", "Home", "x",
         "Ctrl+c", "Ctrl+q", "Ctrl+a"}

\* key.code
Code(key) ==
    CASE key = "Ctrl+c" -> "c"
      [] key = "Ctrl+q" -> "q"
      [] key = "Ctrl+a" -> "a"
      [] OTHER -> key

\* key.modifiers.contains(KeyModifiers::CONTROL)
HasControl(key) == key \in {"Ctrl+c", "Ctrl+q", "Ctrl+a"}

----------------------------------------------------------------------------
(* Strings.  A string is a sequence of characters; " " and "\n" are the      *)
(* whitespace characters, every other character is not.                      *)

Whitespace == {" ", "\n"}

RECURSIVE trim_start(_)
trim_start(s) ==
    IF s = <<>> THEN s
    ELSE IF Head(s) \in Whitespace THEN trim_start(Tail(s)) ELSE s

RECURSIVE trim_end(_)
trim_end(s) ==
    IF s = <<>> THEN s
    ELSE IF s[Len(s)] \in Whitespace THEN trim_end(SubSeq(s, 1, Len(s) - 1)) ELSE s

\* str::trim, as suggest_modal.rs:126 applies it to the original prompt
trim(s) == trim_end(trim_start(s))

----------------------------------------------------------------------------
(* cli/suggest.rs: the suggestion tables *)

\* The ids of the suggestions of both tables, in the order of str::cmp.  A
\* suggestion is named by the position of its id in this list, so that s < t is
\* the order sort_by_key(|s| s.id) sorts by.
SuggestionIds == <<"action_directive", "expertise_level", "interaction_style",
                   "response_format", "response_length", "scope_boundaries",
                   "source_citation", "unknown_handling">>

\* suggest.rs:21-80: response_format, source_citation, unknown_handling,
\* response_length, action_directive; the table's first NumRole entries.
ROLE_SUGGESTIONS == SubSeq(<<4, 7, 8, 5, 1>>, 1, NumRole)

\* suggest.rs:83-121: scope_boundaries, expertise_level, interaction_style; the
\* table's first NumOpen entries.
OPENENDED_SUGGESTIONS == SubSeq(<<6, 2, 3>>, 1, NumOpen)

\* The template of suggestion s: every template is a raw string that opens with a
\* line break (suggest.rs:26, 37, ...); the text after it is one character here,
\* named after the suggestion, that no prompt contains.
template(s) == <<"\n", SuggestionIds[s]>>

----------------------------------------------------------------------------
(* widgets/suggest_modal.rs: SuggestModalState *)

\* Vec::sort_by_key(|s| s.id): a stable sort, by insertion.
RECURSIVE InsertByKey(_, _)
InsertByKey(sorted, s) ==
    IF sorted = <<>> THEN <<s>>
    ELSE IF s < Head(sorted) THEN <<s>> \o sorted
    ELSE <<Head(sorted)>> \o InsertByKey(Tail(sorted), s)

RECURSIVE sort_by_key(_)
sort_by_key(v) ==
    IF v = <<>> THEN <<>>
    ELSE InsertByKey(sort_by_key(SubSeq(v, 1, Len(v) - 1)), v[Len(v)])

\* Vec::dedup_by_key(|s| s.id): drops every element equal to its predecessor.
RECURSIVE dedup_by_key(_)
dedup_by_key(v) ==
    IF Len(v) <= 1 THEN v
    ELSE IF v[1] = v[2] THEN dedup_by_key(Tail(v))
    ELSE <<v[1]>> \o dedup_by_key(Tail(v))

\* A from_issues that shows the modal whatever the issues are.
FromIssuesAlwaysVisible(ids) ==
    LET has_exp005 == \E i \in 1..Len(ids) : ids[i] = "EXP005"
        has_exp006 == \E i \in 1..Len(ids) : ids[i] = "EXP006"
        suggestions == dedup_by_key(sort_by_key(
                          (IF has_exp005 THEN ROLE_SUGGESTIONS ELSE <<>>)
                          \o (IF has_exp006 THEN OPENENDED_SUGGESTIONS ELSE <<>>)))
    IN  [suggestions |-> suggestions,
         selections |-> [i \in 1..Len(suggestions) |-> FALSE],
         cursor |-> 0,
         visible |-> TRUE,
         trigger_issues |-> (IF has_exp005 THEN <<"EXP005">> ELSE <<>>)
                            \o (IF has_exp006 THEN <<"EXP006">> ELSE <<>>)]

\* suggest_modal.rs:32-62  SuggestModalState::from_issues
from_issues(ids) ==
    LET has_exp005 == \E i \in 1..Len(ids) : ids[i] = "EXP005"
        has_exp006 == \E i \in 1..Len(ids) : ids[i] = "EXP006"
        extended == (IF has_exp005 THEN ROLE_SUGGESTIONS ELSE <<>>)
                    \o (IF has_exp006 THEN OPENENDED_SUGGESTIONS ELSE <<>>)
        trigger_issues == (IF has_exp005 THEN <<"EXP005">> ELSE <<>>)
                          \o (IF has_exp006 THEN <<"EXP006">> ELSE <<>>)
        suggestions == dedup_by_key(sort_by_key(extended))
    IN  [suggestions |-> suggestions,
         selections |-> [i \in 1..Len(suggestions) |-> FALSE],
         cursor |-> 0,
         visible |-> (trigger_issues # <<>>),
         trigger_issues |-> trigger_issues]

\* suggest_modal.rs:65-67  SuggestModalState::should_show
should_show(ids) ==
    \E i \in 1..Len(ids) : ids[i] = "EXP005" \/ ids[i] = "EXP006"

\* suggest_modal.rs:70-74  cursor_up
cursor_up(state) ==
    IF state.cursor > 0 THEN [state EXCEPT !.cursor = state.cursor - 1] ELSE state

\* A cursor_down that steps past the last suggestion.
CursorDownPastEnd(state) ==
    IF state.cursor < Len(state.suggestions)
    THEN [state EXCEPT !.cursor = state.cursor + 1] ELSE state

\* suggest_modal.rs:77-81  cursor_down
cursor_down(state) ==
    IF state.cursor < SaturatingSub(Len(state.suggestions), 1)
    THEN [state EXCEPT !.cursor = state.cursor + 1] ELSE state

\* suggest_modal.rs:84-88  toggle_current; selections[cursor] is selections[cursor + 1]
\* of the sequence.
toggle_current(state) ==
    IF state.cursor < Len(state.selections)
    THEN [state EXCEPT !.selections[state.cursor + 1] = ~state.selections[state.cursor + 1]]
    ELSE state

\* suggest_modal.rs:91-95  select_all
select_all(state) ==
    [state EXCEPT !.selections = [i \in 1..Len(state.selections) |-> TRUE]]

\* suggest_modal.rs:98-102  deselect_all
deselect_all(state) ==
    [state EXCEPT !.selections = [i \in 1..Len(state.selections) |-> FALSE]]

\* suggest_modal.rs:105-112  get_selected: the suggestions whose selection is set,
\* in list order; zip stops at the shorter of the two vectors.
RECURSIVE SelectedUpTo(_, _)
SelectedUpTo(state, n) ==
    IF n = 0 THEN <<>>
    ELSE SelectedUpTo(state, n - 1)
         \o (IF state.selections[n] THEN <<state.suggestions[n]>> ELSE <<>>)

get_selected(state) ==
    SelectedUpTo(state, IF Len(state.suggestions) < Len(state.selections)
                        THEN Len(state.suggestions) ELSE Len(state.selections))

\* suggest_modal.rs:115-117  has_selections
has_selections(state) ==
    \E i \in 1..Len(state.selections) : state.selections[i]

\* The text apply_to_prompt's loop pushes for the selected suggestions
\* (suggest_modal.rs:129-132): each template and a line break after it.
RECURSIVE PushTemplates(_)
PushTemplates(selected) ==
    IF selected = <<>> THEN <<>>
    ELSE template(Head(selected)) \o <<"\n">> \o PushTemplates(Tail(selected))

\* An apply_to_prompt that pushes every suggestion's template, selected or not.
ApplyAllToPrompt(state, original) ==
    IF get_selected(state) = <<>> THEN original
    ELSE trim(original) \o <<"\n">> \o PushTemplates(state.suggestions)

\* An apply_to_prompt that starts from the empty string instead of the original.
ApplyDropOriginal(state, original) ==
    IF get_selected(state) = <<>> THEN original
    ELSE <<"\n">> \o PushTemplates(get_selected(state))

\* suggest_modal.rs:120-135  apply_to_prompt
apply_to_prompt(state, original) ==
    LET selected == get_selected(state)
    IN  IF selected = <<>> THEN original
        ELSE trim(original) \o <<"\n">> \o PushTemplates(selected)

\* suggest_modal.rs:138-140  dismiss
dismiss(state) == [state EXCEPT !.visible = FALSE]

\* What handle_suggest_modal_key returns: the state it leaves and its triple
\* (handled, should_apply, dismissed).
ModalKey(state, handled, should_apply, dismissed) ==
    [state |-> state, handled |-> handled, should_apply |-> should_apply,
     dismissed |-> dismissed]

\* A handle_suggest_modal_key that handles Enter and Esc alone.
ModalKeysEnterEscOnly(state, key) ==
    IF ~state.visible THEN ModalKey(state, FALSE, FALSE, FALSE)
    ELSE CASE Code(key) = "Enter" -> ModalKey(state, TRUE, TRUE, TRUE)
           [] Code(key) = "Esc" -> ModalKey(dismiss(state), TRUE, FALSE, TRUE)
           [] OTHER -> ModalKey(state, FALSE, FALSE, FALSE)

\* suggest_modal.rs:250-294  handle_suggest_modal_key
handle_suggest_modal_key(state, key) ==
    IF ~state.visible THEN ModalKey(state, FALSE, FALSE, FALSE)
    ELSE LET code == Code(key)
         IN  CASE code \in {"Up", "k"} -> ModalKey(cursor_up(state), TRUE, FALSE, FALSE)
               [] code \in {"Down", "j"} -> ModalKey(cursor_down(state), TRUE, FALSE, FALSE)
               [] code = "Space" -> ModalKey(toggle_current(state), TRUE, FALSE, FALSE)
               [] code = "Enter" -> ModalKey(state, TRUE, TRUE, TRUE)
               [] code = "Esc" -> ModalKey(dismiss(state), TRUE, FALSE, TRUE)
               [] code = "a" -> ModalKey(select_all(state), TRUE, FALSE, FALSE)
               [] code = "n" -> ModalKey(deselect_all(state), TRUE, FALSE, FALSE)
               [] OTHER -> ModalKey(state, FALSE, FALSE, FALSE)
----------------------------------------------------------------------------
(* tui/model.rs: the Model and its operations, as functions of the Model *)

\* The Model the variables hold.
Cur ==
    [issue_tree |-> [categories |-> categories, flat_index |-> flat_index],
     current_view |-> current_view,
     phase |-> phase,
     original_prompt |-> original_prompt,
     optimized_prompt |-> optimized_prompt,
     stats |-> stats,
     error |-> error,
     scroll_offset |-> scroll_offset,
     should_quit |-> should_quit,
     terminal_width |-> terminal_width,
     terminal_height |-> terminal_height,
     suggest_modal |-> suggest_modal,
     status_message |-> status_message,
     status_clear_at |-> status_clear_at]

\* The Model after the step is m.
Commit(m) ==
    /\ categories' = m.issue_tree.categories
    /\ flat_index' = m.issue_tree.flat_index
    /\ current_view' = m.current_view
    /\ phase' = m.phase
    /\ original_prompt' = m.original_prompt
    /\ optimized_prompt' = m.optimized_prompt
    /\ stats' = m.stats
    /\ error' = m.error
    /\ scroll_offset' = m.scroll_offset
    /\ should_quit' = m.should_quit
    /\ terminal_width' = m.terminal_width
    /\ terminal_height' = m.terminal_height
    /\ suggest_modal' = m.suggest_modal
    /\ status_message' = m.status_message
    /\ status_clear_at' = m.status_clear_at

\* model.rs:284-292  Model::set_issues; iss are the issues' categories and ids
\* their ids, order is the order the HashMap yields the groups in.
set_issues(m, iss, ids, order) ==
    LET m1 == [m EXCEPT !.issue_tree = FromIssues(iss, order),
                        !.phase = "AnalysisDone"]
    IN  IF should_show(ids)
        THEN [m1 EXCEPT !.suggest_modal = from_issues(ids)]
        ELSE m1

\* A set_optimization_result that stores the text and leaves the statistics.
SetResultTextOnly(m) ==
    [m EXCEPT !.optimized_prompt = "Some", !.phase = "Done", !.current_view = "Diff"]

\* model.rs:295-301  Model::set_optimization_result
set_optimization_result(m) ==
    [m EXCEPT !.optimized_prompt = "Some", !.stats = "Some", !.phase = "Done",
              !.current_view = "Diff"]

\* A set_error that stores the error and leaves the phase.
SetErrorKeepPhase(m) == [m EXCEPT !.error = "Some"]

\* model.rs:304-307  Model::set_error
set_error(m) == [m EXCEPT !.error = "Some", !.phase = "Error"]

\* A clear_error that leaves the phase as it is.
ClearErrorKeepPhase(m) == [m EXCEPT !.error = "None"]

\* A clear_error that skips the AnalysisDone case.
ClearErrorNoTree(m) ==
    [m EXCEPT !.error = "None",
              !.phase = IF m.optimized_prompt # "None" THEN "Done" ELSE "Ready"]

\* model.rs:310-320  Model::clear_error
clear_error(m) ==
    [m EXCEPT !.error = "None",
              !.phase = IF m.optimized_prompt # "None" THEN "Done"
                        ELSE IF m.issue_tree.categories # <<>> THEN "AnalysisDone"
                        ELSE "Ready"]

\* A has_results that holds of every Model.
HasResultsAlways(m) == TRUE

\* model.rs:323-325  Model::has_results
has_results(m) == m.optimized_prompt # "None"

\* model.rs:337-340  Model::set_status_message; duration in seconds
set_status_message(m, message, duration) ==
    [m EXCEPT !.status_message = message, !.status_clear_at = {now + duration}]

\* model.rs:343-346  Model::clear_status_message
clear_status_message(m) ==
    [m EXCEPT !.status_message = "None", !.status_clear_at = {}]

----------------------------------------------------------------------------
(* model.rs: Model::set_issues; update.rs: the Main view's navigation keys *)

NavKeys == {"Up", "k", "Down", "j", "Enter"}

\* model.rs:284-292  Model::set_issues, on issues that carry a category and an id
\* that is no trigger of the suggestion modal.  The program builds the tree before
\* the event loop handles its first key (main.rs:726 is before main.rs:783).
SetIssues ==
    /\ lastKey = "none"
    /\ \E iss \in IssueLists :
        \E order \in HashOrders(CategoryKeys(iss)) :
          LET ids == [i \in 1..Len(iss) |-> "STY001"]
          IN  /\ Commit(set_issues(Cur, iss, ids, order))
              /\ issues' = iss
              /\ issue_ids' = ids
              /\ lastKey' = "none"
              /\ lastOp' = "set_issues"
              /\ UNCHANGED <<procVars, now, redraw, viewVars>>

\* update.rs:108-122  handle_main_keys, the keys that act on the tree
HandleMainKeys(key) ==
    /\ lastKey' = key
    /\ CASE key \in {"Up", "k"} ->
              /\ flat_index' = SelectPrev(flat_index)
              /\ UNCHANGED categories
         [] key \in {"Down", "j"} ->
              /\ flat_index' = SelectNext(categories, flat_index)
              /\ UNCHANGED categories
         [] key = "Enter" ->
              /\ categories' = ToggleCurrent(categories, flat_index)
              /\ UNCHANGED flat_index
    /\ UNCHANGED <<issues, termVars, modelVars>>

\* Model::new (model.rs:260-281): the tree is IssueTree::default().
InitTree ==
    /\ InitCommon
    /\ args = NoArgs
    /\ original_prompt = <<>>
    /\ harness = FALSE
    /\ pc = [t \in Threads |-> "off"]

NextTree ==
    \/ SetIssues
    \/ \E key \in NavKeys : HandleMainKeys(key)

SpecTree == InitTree /\ [][NextTree]_vars

----------------------------------------------------------------------------
(* tui/update.rs: update and its key handlers, as functions of the Model.    *)
(* A handler returns the Model it leaves and the redraw flag it returns.     *)

Ret(m, flag) == [model |-> m, redraw |-> flag]

\* What the clipboard, the file system and the editor process answer to the one
\* call a key makes of them: "ok", or the call that fails.
IoOutcomes == {"ok", "copy_err", "mkdir_err", "write_err", "spawn_err"}

\* u16::saturating_add
SaturatingAdd(a, b) == IF a + b > U16_MAX THEN U16_MAX ELSE a + b

\* A handle_copy that reports nothing when the clipboard fails.
HandleCopyFailSilent(m, io) ==
    IF m.optimized_prompt # "None" /\ io # "copy_err"
    THEN Ret(set_status_message(m, "Copied to clipboard", 3), TRUE)
    ELSE Ret(m, FALSE)

\* update.rs:203-216  handle_copy
handle_copy(m, io) ==
    IF m.optimized_prompt # "None"
    THEN IF io # "copy_err"
         THEN Ret(set_status_message(m, "Copied to clipboard", 3), TRUE)
         ELSE Ret(set_status_message(m, "Copy failed", 5), TRUE)
    ELSE Ret(m, FALSE)

\* update.rs:219-280  handle_save
handle_save(m, io) ==
    IF m.optimized_prompt # "None"
    THEN CASE io = "mkdir_err" ->
                Ret(set_status_message(m, "Failed to create directory", 5), TRUE)
           [] io = "write_err" ->
                Ret(set_status_message(m, "Save failed", 5), TRUE)
           [] io = "spawn_err" ->
                Ret(set_status_message(m, "Saved (editor failed)", 5), TRUE)
           [] OTHER ->
                Ret([m EXCEPT !.should_quit = TRUE], TRUE)
    ELSE Ret(m, FALSE)

\* update.rs:284-287  handle_open_in_editor
handle_open_in_editor(m, io) == handle_save(m, io)

\* A handle_error_keys that lets q through to quit.
HandleErrorKeysQuit(m, key) ==
    CASE Code(key) \in {"Enter", "Esc"} -> Ret(clear_error(m), TRUE)
      [] Code(key) = "q" -> Ret([m EXCEPT !.should_quit = TRUE], FALSE)
      [] OTHER -> Ret(m, FALSE)

\* update.rs:97-105  handle_error_keys
handle_error_keys(m, key) ==
    IF Code(key) \in {"Enter", "Esc"}
    THEN Ret(clear_error(m), TRUE)
    ELSE Ret(m, FALSE)

\* update.rs:108-159  handle_main_keys
handle_main_keys(m, key, io) ==
    LET code == Code(key)
        tree == m.issue_tree
    IN  CASE code \in {"Up", "k"} ->
               Ret([m EXCEPT !.issue_tree.flat_index = SelectPrev(tree.flat_index)], TRUE)
          [] code \in {"Down", "j"} ->
               Ret([m EXCEPT !.issue_tree.flat_index =
                                 SelectNext(tree.categories, tree.flat_index)], TRUE)
          [] code = "Enter" ->
               Ret([m EXCEPT !.issue_tree.categories =
                                 ToggleCurrent(tree.categories, tree.flat_index)], TRUE)
          [] code = "d" /\ has_results(m) -> Ret([m EXCEPT !.current_view = "Diff"], TRUE)
          [] code = "?" -> Ret([m EXCEPT !.current_view = "Help"], TRUE)
          [] code = "c" /\ has_results(m) -> handle_copy(m, io)
          [] code = "s" /\ has_results(m) -> handle_save(m, io)
          [] code = "e" /\ has_results(m) -> handle_open_in_editor(m, io)
          [] code = "r" /\ has_results(m) -> Ret(m, FALSE)
          [] code = "PageUp" ->
               Ret([m EXCEPT !.scroll_offset = SaturatingSub(m.scroll_offset, 10)], TRUE)
          [] code = "PageDown" ->
               Ret([m EXCEPT !.scroll_offset = SaturatingAdd(m.scroll_offset, 10)], TRUE)
          [] code = "Home" -> Ret([m EXCEPT !.scroll_offset = 0], TRUE)
          [] OTHER -> Ret(m, FALSE)

\* update.rs:162-189  handle_diff_keys
handle_diff_keys(m, key, io) ==
    LET code == Code(key)
    IN  CASE code \in {"Esc", "d"} -> Ret([m EXCEPT !.current_view = "Main"], TRUE)
          [] code = "c" -> handle_copy(m, io)
          [] code = "s" -> handle_save(m, io)
          [] code = "e" -> handle_open_in_editor(m, io)
          [] code = "Up" ->
               Ret([m EXCEPT !.scroll_offset = SaturatingSub(m.scroll_offset, 1)], TRUE)
          [] code = "Down" ->
               Ret([m EXCEPT !.scroll_offset = SaturatingAdd(m.scroll_offset, 1)], TRUE)
          [] code = "PageUp" ->
               Ret([m EXCEPT !.scroll_offset = SaturatingSub(m.scroll_offset, 10)], TRUE)
          [] code = "PageDown" ->
               Ret([m EXCEPT !.scroll_offset = SaturatingAdd(m.scroll_offset, 10)], TRUE)
          [] OTHER -> Ret(m, FALSE)

\* A handle_help_keys that leaves Help for the Diff view.
HandleHelpKeysToDiff(m, key) ==
    IF Code(key) \in {"Esc", "?", "Enter"}
    THEN Ret([m EXCEPT !.current_view = "Diff"], TRUE)
    ELSE Ret(m, FALSE)

\* update.rs:192-200  handle_help_keys
handle_help_keys(m, key) ==
    IF Code(key) \in {"Esc", "?", "Enter"}
    THEN Ret([m EXCEPT !.current_view = "Main"], TRUE)
    ELSE Ret(m, FALSE)

\* update.rs:76-93  handle_key from the global keys on: q, Ctrl+C, then the view's
\* handler.
GlobalAndViewKeys(m, key, io) ==
    IF Code(key) = "q" \/ (Code(key) = "c" /\ HasControl(key))
    THEN Ret([m EXCEPT !.should_quit = TRUE], FALSE)
    ELSE CASE m.current_view = "Main" -> handle_main_keys(m, key, io)
           [] m.current_view = "Diff" -> handle_diff_keys(m, key, io)
           [] m.current_view = "Help" -> handle_help_keys(m, key)

\* A handle_key that copies on Ctrl+C: the view's handler comes before the global
\* keys.
HandleKeyViewFirst(m, key, io) ==
    IF m.error # "None" THEN handle_error_keys(m, key)
    ELSE IF Code(key) = "c"
         THEN CASE m.current_view = "Main" -> handle_main_keys(m, key, io)
                [] m.current_view = "Diff" -> handle_diff_keys(m, key, io)
                [] m.current_view = "Help" -> handle_help_keys(m, key)
         ELSE GlobalAndViewKeys(m, key, io)

\* A handle_key whose Escape applies the selection as Enter does.
HandleKeyEscApplies(m, key, io) ==
    IF m.error # "None" THEN handle_error_keys(m, key)
    ELSE LET r == handle_suggest_modal_key(m.suggest_modal, key)
             m1 == [m EXCEPT !.suggest_modal = r.state]
             m2 == IF r.dismissed /\ has_selections(m1.suggest_modal)
                   THEN [m1 EXCEPT !.original_prompt =
                             apply_to_prompt(m1.suggest_modal, m1.original_prompt)]
                   ELSE m1
             m3 == IF r.dismissed
                   THEN [m2 EXCEPT !.suggest_modal = dismiss(m2.suggest_modal)]
                   ELSE m2
         IN  IF m.suggest_modal.visible /\ r.handled
             THEN Ret(m3, TRUE)
             ELSE GlobalAndViewKeys(m, key, io)

\* A handle_key that asks the suggestion modal before the error modal.
HandleKeySuggestFirst(m, key, io) ==
    LET r == handle_suggest_modal_key(m.suggest_modal, key)
        m1 == [m EXCEPT !.suggest_modal = r.state]
        m2 == IF r.should_apply /\ has_selections(m1.suggest_modal)
              THEN [m1 EXCEPT !.original_prompt =
                        apply_to_prompt(m1.suggest_modal, m1.original_prompt)]
              ELSE m1
        m3 == IF r.dismissed
              THEN [m2 EXCEPT !.suggest_modal = dismiss(m2.suggest_modal)]
              ELSE m2
    IN  IF m.suggest_modal.visible /\ r.handled THEN Ret(m3, TRUE)
        ELSE IF m.error # "None" THEN handle_error_keys(m, key)
        ELSE GlobalAndViewKeys(m, key, io)

\* update.rs:51-94  handle_key
handle_key(m, key, io) ==
    IF m.error # "None" THEN handle_error_keys(m, key)
    ELSE LET r == handle_suggest_modal_key(m.suggest_modal, key)
             m1 == [m EXCEPT !.suggest_modal = r.state]
             m2 == IF r.should_apply /\ has_selections(m1.suggest_modal)
                   THEN [m1 EXCEPT !.original_prompt =
                             apply_to_prompt(m1.suggest_modal, m1.original_prompt)]
                   ELSE m1
             m3 == IF r.dismissed
                   THEN [m2 EXCEPT !.suggest_modal = dismiss(m2.suggest_modal)]
                   ELSE m2
         IN  IF m.suggest_modal.visible /\ r.handled
             THEN Ret(m3, TRUE)
             ELSE GlobalAndViewKeys(m, key, io)

\* A Resize arm that stores the two dimensions swapped.
UpdateResizeSwapped(m, width, height) ==
    Ret([m EXCEPT !.terminal_width = height, !.terminal_height = width], TRUE)

\* update.rs:34-38  update, the Msg::Resize arm
update_resize(m, width, height) ==
    Ret([m EXCEPT !.terminal_width = width, !.terminal_height = height], TRUE)

\* A check_status_expiry that clears the pair at every call.
CheckExpiryAlways(m) ==
    IF m.status_clear_at # {}
    THEN Ret(clear_status_message(m), TRUE)
    ELSE Ret(m, FALSE)

\* A check_status_expiry that clears the message and keeps the expiry.
CheckExpiryKeepsClearAt(m) ==
    IF \E clear_at \in m.status_clear_at : now >= clear_at
    THEN Ret([m EXCEPT !.status_message = "None"], TRUE)
    ELSE Ret(m, FALSE)

\* model.rs:349-357  Model::check_status_expiry, with the flag it returns
check_status_expiry(m) ==
    IF \E clear_at \in m.status_clear_at : now >= clear_at
    THEN Ret(clear_status_message(m), TRUE)
    ELSE Ret(m, FALSE)

\* update.rs:39-42  update(model, Msg::Tick)
update_tick(m) == check_status_expiry(m)

\* update.rs:43-46  update(model, Msg::Quit)
update_quit(m) == Ret([m EXCEPT !.should_quit = TRUE], FALSE)

----------------------------------------------------------------------------
(* tui/view.rs: render, as the layouts and overlays it draws, in order *)

\* view.rs:12-13
MIN_WIDTH == 60
MIN_HEIGHT == 15

\* A render that draws the view's full layout on a frame of any size.
RenderIgnoreSize(m, area) ==
    <<m.current_view>> \o (IF m.error # "None" THEN <<"error_modal">> ELSE <<>>)

\* view.rs:16-36  render; area is frame.area() as <<width, height>>.  "Minimal"
\* is render_minimal, "Main", "Diff" and "Help" are render_main, render_diff and
\* render_help, "error_modal" is widgets::render_error_modal.
render(m, area) ==
    IF area[1] < MIN_WIDTH \/ area[2] < MIN_HEIGHT
    THEN <<"Minimal">>
    ELSE <<m.current_view>> \o (IF m.error # "None" THEN <<"error_modal">> ELSE <<>>)

----------------------------------------------------------------------------
(* tui/app.rs: detect_render_mode *)

\* A detect_render_mode that looks at --interactive before the TTY.
DetectInteractiveFirst(interactive, quiet, format_json, is_tty) ==
    IF format_json THEN "Json"
    ELSE IF quiet THEN "Quiet"
    ELSE IF interactive THEN "Interactive"
    ELSE IF ~is_tty THEN "Plain"
    ELSE "Linear"

\* app.rs:69-86  detect_render_mode
detect_render_mode(interactive, quiet, format_json, is_tty) ==
    IF format_json THEN "Json"
    ELSE IF quiet THEN "Quiet"
    ELSE IF ~is_tty THEN "Plain"
    ELSE IF interactive THEN "Interactive"
    ELSE "Linear"

----------------------------------------------------------------------------
(* The Model as main.rs builds it (run_interactive_mode, main.rs:711-783) and *)
(* as the event loop updates it (app.rs:36-57)                                *)

\* The issue lists the analyzer reports to set_issues, each issue with its id and
\* the key of its category: the two trigger ids of the suggestion modal, EXP005
\* and EXP006, and one other id.
Exp005 == [id |-> "EXP005", category |-> 1]
Exp006 == [id |-> "EXP006", category |-> 1]
Sty001 == [id |-> "STY001", category |-> 2]

ModelIssueLists ==
    {<<>>, <<Sty001>>, <<Exp005>>, <<Exp006>>, <<Exp005, Exp006>>, <<Sty001, Exp005>>}

\* The prompts main.rs stores: none is empty after trim() (main.rs:174 exits on
\* such a prompt).  The text of a prompt is the character "x"; a prompt has no
\* whitespace around it, or a space before it, or a line break or a space after it.
Prompts == {<<"x">>, <<" ", "x">>, <<"x", "\n">>, <<"x", " ">>}

\* The terminal sizes <<width, height>> a Resize event reports.
Sizes == {<<100, 50>>}

\* The operations main.rs applies before it enters the event loop.
BuildOps == {"new", "analyzing", "set_issues", "optimizing", "analysis_done",
             "set_optimization_result"}

\* The step applies `op` to the Model and leaves m.
ModelStep(op, m) ==
    /\ Commit(m)
    /\ lastOp' = op
    /\ lastKey' = "none"
    /\ UNCHANGED <<procVars, now, viewVars>>

\* main.rs:724  model.phase = AppPhase::Analyzing
Analyzing ==
    /\ lastOp = "new"
    /\ ModelStep("analyzing", [Cur EXCEPT !.phase = "Analyzing"])
    /\ UNCHANGED <<issues, issue_ids, redraw>>

\* main.rs:725-726  model.set_issues(&issues), on the issues the analyzer returned
ModelSetIssues ==
    /\ lastOp = "analyzing"
    /\ \E list \in ModelIssueLists :
         LET iss == [i \in 1..Len(list) |-> list[i].category]
             ids == [i \in 1..Len(list) |-> list[i].id]
         IN  \E order \in HashOrders(CategoryKeys(iss)) :
               /\ ModelStep("set_issues", set_issues(Cur, iss, ids, order))
               /\ issues' = iss
               /\ issue_ids' = ids
    /\ UNCHANGED redraw

\* main.rs:731  model.phase = AppPhase::Optimizing
Optimizing ==
    /\ lastOp = "set_issues"
    /\ ModelStep("optimizing", [Cur EXCEPT !.phase = "Optimizing"])
    /\ UNCHANGED <<issues, issue_ids, redraw>>

\* main.rs:779  model.phase = AppPhase::AnalysisDone, the offline branch
AnalysisOnly ==
    /\ lastOp = "set_issues"
    /\ ModelStep("analysis_done", [Cur EXCEPT !.phase = "AnalysisDone"])
    /\ UNCHANGED <<issues, issue_ids, redraw>>

\* main.rs:771  model.set_optimization_result(optimized, stats)
SetOptimizationResult ==
    /\ lastOp = "optimizing"
    /\ ModelStep("set_optimization_result", set_optimization_result(Cur))
    /\ UNCHANGED <<issues, issue_ids, redraw>>

\* main.rs:774  model.set_error(..).  main.rs calls it while the phase is
\* Optimizing; as an operation of the Model it may be called at any point of the
\* build, and it is the last operation before the loop, as in main.rs.
SetError ==
    /\ lastOp \in BuildOps
    /\ ModelStep("set_error", set_error(Cur))
    /\ UNCHANGED <<issues, issue_ids, redraw>>

\* app.rs:45-47  update(model, Msg::Key(key)), when the clipboard, the file system
\* and the editor answer io; the loop ends once the quit flag is set
\* (app.rs:54-56).
Press(key, io) ==
    LET r == handle_key(Cur, key, io)
    IN  /\ ~should_quit
        /\ r.model.scroll_offset <= MaxScroll
        /\ Commit(r.model)
        /\ redraw' = r.redraw
        /\ lastOp' = IF error # "None" /\ r.model.error = "None"
                     THEN "clear_error" ELSE "update"
        /\ UNCHANGED <<issues, issue_ids, lastKey, procVars, now, viewVars>>

\* A key press, each call the key makes of the clipboard, the file system or the
\* editor succeeding.
Key == \E key \in Keys : Press(key, "ok")

\* app.rs:48-50  update(model, Msg::Resize(width, height))
Resize ==
    /\ ~should_quit
    /\ \E size \in Sizes :
          LET r == update_resize(Cur, size[1], size[2])
          IN  /\ ModelStep("update", r.model)
              /\ redraw' = r.redraw
    /\ UNCHANGED <<issues, issue_ids>>

\* Model::new() (model.rs:260-281) and main.rs:720, model.original_prompt = prompt
InitModel ==
    /\ InitCommon
    /\ args = NoArgs
    /\ original_prompt = <<"x">>
    /\ harness = FALSE
    /\ pc = [t \in Threads |-> "off"]

NextModel ==
    \/ Analyzing
    \/ ModelSetIssues
    \/ Optimizing
    \/ AnalysisOnly
    \/ SetOptimizationResult
    \/ SetError
    \/ Key
    \/ Resize

SpecModel == InitModel /\ [][NextModel]_vars

\* The suggestion modal and the prompt it is applied to: Model::new(), the prompt
\* main.rs:720 stores, set_issues and the keys.
InitSuggest ==
    /\ InitCommon
    /\ args = NoArgs
    /\ original_prompt \in Prompts
    /\ harness = FALSE
    /\ pc = [t \in Threads |-> "off"]

NextSuggest ==
    \/ Analyzing
    \/ ModelSetIssues
    \/ Key

SpecSuggest == InitSuggest /\ [][NextSuggest]_vars

\* The issue lists of the specifications in which the tree and the suggestion
\* modal play no part: no issue, or one that triggers no suggestion.
PlainIssueLists == {<<>>, <<Sty001>>}

\* main.rs:725-726  model.set_issues(&issues), on one of the plain lists
PlainSetIssues ==
    /\ lastOp = "analyzing"
    /\ \E list \in PlainIssueLists :
         LET iss == [i \in 1..Len(list) |-> list[i].category]
             ids == [i \in 1..Len(list) |-> list[i].id]
         IN  \E order \in HashOrders(CategoryKeys(iss)) :
               /\ ModelStep("set_issues", set_issues(Cur, iss, ids, order))
               /\ issues' = iss
               /\ issue_ids' = ids
    /\ UNCHANGED redraw

\* The keys that call the clipboard, the file system or the editor.
IoKeys == {"c", "s", "e"}

\* A key press whose call of the clipboard, the file system or the editor fails.
KeyFail == \E key \in IoKeys : \E io \in IoOutcomes \ {"ok"} : Press(key, io)

\* update.rs:39-42  update(model, Msg::Tick)
Tick ==
    LET r == update_tick(Cur)
    IN  /\ ~should_quit
        /\ ModelStep("tick", r.model)
        /\ redraw' = r.redraw
        /\ UNCHANGED <<issues, issue_ids>>

\* update.rs:43-46  update(model, Msg::Quit)
Quit ==
    LET r == update_quit(Cur)
    IN  /\ ~should_quit
        /\ ModelStep("quit", r.model)
        /\ redraw' = r.redraw
        /\ UNCHANGED <<issues, issue_ids>>

\* A second passes on the clock Instant::now() reads (model.rs:339, 351).
Elapse ==
    /\ now < MaxTime
    /\ now' = now + 1
    /\ UNCHANGED <<termVars, treeVars, issue_ids, current_view, phase,
                   optimized_prompt, stats, error, scroll_offset, terminal_width,
                   terminal_height, suggest_modal, original_prompt, status_message,
                   status_clear_at, redraw, lastOp, viewVars>>

\* The Model under every message of update: the steps of main.rs, then Key,
\* Resize, Tick and Quit as time passes.
NextEvents ==
    \/ Analyzing
    \/ PlainSetIssues
    \/ Optimizing
    \/ AnalysisOnly
    \/ SetOptimizationResult
    \/ SetError
    \/ Key
    \/ KeyFail
    \/ Resize
    \/ Tick
    \/ Quit
    \/ Elapse

SpecEvents == InitModel /\ [][NextEvents]_vars

\* The frame sizes the terminal hands to render: at, and one below, each of the
\* two thresholds, and the size Model::new assumes.
FrameSizes == {<<59, 15>>, <<60, 14>>, <<59, 14>>, <<60, 15>>, <<80, 24>>}

\* app.rs:36  terminal.draw(|frame| render(frame, model))
Render ==
    /\ ~should_quit
    /\ \E area \in FrameSizes :
          frame' = [area |-> area, drawn |-> render(Cur, area)]
    /\ UNCHANGED <<termVars, treeVars, issue_ids, current_view, phase,
                   optimized_prompt, stats, error, scroll_offset, terminal_width,
                   terminal_height, suggest_modal, original_prompt, status_message,
                   status_clear_at, now, redraw, lastOp, args, mode, calls>>

\* The Model and the frames drawn of it: the steps of main.rs, the keys and the
\* draws of the loop.
NextView ==
    \/ Analyzing
    \/ PlainSetIssues
    \/ Optimizing
    \/ AnalysisOnly
    \/ SetOptimizationResult
    \/ SetError
    \/ Key
    \/ Render

SpecView == InitModel /\ [][NextView]_vars

\* The suggestion modal and the frames drawn while it is up: set_issues on the
\* lists that may trigger it, the keys and the draws of the loop.
NextOverlay ==
    \/ Analyzing
    \/ ModelSetIssues
    \/ Key
    \/ Render

SpecOverlay == InitModel /\ [][NextOverlay]_vars

\* The event loop of run_interactive on the Model main.rs built, as time passes:
\* a cycle hands a key press or a resize, if there is one, to update
\* (app.rs:39-49); a cycle without input draws the Model and leaves it as it is
\* (app.rs:36), a stuttering step.
NextLoop ==
    \/ Analyzing
    \/ PlainSetIssues
    \/ Optimizing
    \/ AnalysisOnly
    \/ SetOptimizationResult
    \/ SetError
    \/ Key
    \/ KeyFail
    \/ Resize
    \/ Elapse

\* The loop keeps cycling as the clock runs on; nothing is assumed of the input.
SpecLoop == InitModel /\ [][NextLoop]_vars /\ WF_vars(Elapse)

\* app.rs:106-144  the unit tests' calls of detect_render_mode: a call returns,
\* and the next call is made with other arguments.
Detect ==
    /\ mode = "unset"
    /\ mode' = detect_render_mode(args.interactive, args.quiet, args.format_json,
                                  args.is_tty)
    /\ calls' = calls + 1
    /\ UNCHANGED <<termVars, treeVars, issue_ids, current_view, phase,
                   optimized_prompt, stats, error, scroll_offset, terminal_width,
                   terminal_height, suggest_modal, original_prompt, status_message,
                   status_clear_at, now, redraw, lastOp, frame, args>>

NextArgs ==
    /\ mode # "unset"
    /\ calls < MaxCalls
    /\ args' \in [interactive : BOOLEAN, quiet : BOOLEAN, format_json : BOOLEAN,
                  is_tty : BOOLEAN]
    /\ mode' = "unset"
    /\ UNCHANGED <<termVars, treeVars, issue_ids, current_view, phase,
                   optimized_prompt, stats, error, scroll_offset, terminal_width,
                   terminal_height, suggest_modal, original_prompt, status_message,
                   status_clear_at, now, redraw, lastOp, frame, calls>>

InitMode ==
    /\ InitCommon
    /\ args \in [interactive : BOOLEAN, quiet : BOOLEAN, format_json : BOOLEAN,
                 is_tty : BOOLEAN]
    /\ original_prompt = <<"x">>
    /\ harness = TRUE
    /\ pc = [t \in Threads |-> "off"]

NextMode == Detect \/ NextArgs

SpecMode == InitMode /\ [][NextMode]_vars

----------------------------------------------------------------------------
(* Claims about the terminal lifecycle *)

\* The driver is between calls and restore() has been called at least once since
\* init() was (or since the start, when init() was not called).
AfterRestore == harness /\ pc["main"] = "test" /\ restoreCalls >= 1

C2_ReturnedRestored ==
    (pc["main"] = "returned" /\ ~restoreFault) =>
        ~TERMINAL_RAW /\ ~rawMode /\ ~altScreen

\* C3: whenever the process has exited with status 130 after an interrupt signal,
\* the terminal is out of raw mode and the alternate screen.  Stated, as C2 is, for
\* the runs in which no terminal call of restore() failed.
C3_InterruptRestored ==
    (exitStatus = "130" /\ ~restoreFault) => ~rawMode /\ ~altScreen

\* The loop thread is past the installed hook's restore() of a panic: in the
\* original hook, in the guard's drop during unwinding, or unwound.
AfterPanicRestore ==
    \/ pc["main"] \in {"orig_hook", "unwound"}
    \/ ret["main"] = "unwound" /\ pc["main"] \in {"restore_swap", "restore_disable", "restore_leave"}

----------------------------------------------------------------------------
(* Claims about the Result Tree *)

\* The category that owns row r of the flattened view (its header or one of its
\* visible issues), 0 when there is no such row; found from the rows each category
\* takes, not by toggle_current's loop.
RowsBefore(cats, k) == FlatLen(SubSeq(cats, 1, k - 1))
OwnerOf(cats, r) ==
    LET owners == {k \in 1..Len(cats) :
                     RowsBefore(cats, k) <= r /\ r < RowsBefore(cats, k + 1)}
    IN  IF owners = {} THEN 0 ELSE CHOOSE k \in owners : TRUE

AllExpanded(cats) == \A k \in 1..Len(cats) : cats[k].expanded

\* C5: for every tree built from at least one issue, 0 <= flat_index < flat_len()
\* after every navigation key, also after an Enter that collapses a category.
C5_FlatIndexInBounds ==
    Len(categories) > 0 => (0 <= flat_index /\ flat_index < FlatLen(categories))

\* C5's case: an Enter has just collapsed the category whose header is the last row.
C5_Witness ==
    /\ lastKey = "Enter"
    /\ flat_index > 0
    /\ flat_index = FlatLen(categories) - 1
    /\ ~categories[Len(categories)].expanded
    /\ Len(categories[Len(categories)].issues) > 0

\* C6: Enter (toggle_current) flips the expanded flag of the category that owns the
\* row at flat_index, whether that row is the category's header or one of its issues.
C6_ToggleFlipsOwner ==
    [][(lastKey' = "Enter" /\ OwnerOf(categories, flat_index) # 0) =>
          categories'[OwnerOf(categories, flat_index)].expanded
             = ~categories[OwnerOf(categories, flat_index)].expanded]_vars

\* C7: with a category header selected, Enter changes flat_len() by exactly that
\* category's issue count (less on collapse, more on expand), leaves every other
\* category's flag as it was, and leaves flat_index as it was.
C7_ToggleHeaderFrame ==
    [][(lastKey' = "Enter" /\ IsCategoryAt(categories, flat_index)) =>
          LET k == OwnerOf(categories, flat_index)
              n == Len(categories[k].issues)
          IN  /\ FlatLen(categories') =
                    IF categories[k].expanded THEN FlatLen(categories) - n
                                              ELSE FlatLen(categories) + n
              /\ categories'[k].expanded = ~categories[k].expanded
              /\ \A l \in 1..Len(categories) :
                    l # k => categories'[l] = categories[l]
              /\ Len(categories') = Len(categories)
              /\ flat_index' = flat_index]_vars

\* C7's case: Enter on the header of a category with issues, in a tree with another
\* category, has collapsed it.
C7_Witness ==
    /\ lastKey = "Enter"
    /\ Len(categories) >= 2
    /\ IsCategoryAt(categories, flat_index)
    /\ LET k == OwnerOf(categories, flat_index)
       IN  ~categories[k].expanded /\ Len(categories[k].issues) >= 2

\* C8: from_issues gives one CategoryNode per distinct category name, in the
\* ascending order of the category keys - an order fixed by the set of names, so
\* the same for every permutation of the list and every order the HashMap hands
\* its entries out in - each node holding its category's issues in list order;
\* the tree it returns has every category expanded and flat_index 0.
C8_FromIssuesDeterministic ==
    /\ Len(categories) = Cardinality(CategoryKeys(issues))
    /\ {categories[k].category : k \in 1..Len(categories)} = CategoryKeys(issues)
    /\ \A k, l \in 1..Len(categories) :
          k < l => categories[k].category < categories[l].category
    /\ \A k \in 1..Len(categories) :
          categories[k].issues = Grouped(issues, categories[k].category)
    /\ lastKey = "none" =>
          /\ AllExpanded(categories)
          /\ flat_index = 0
          /\ \A p \in HashOrders(DOMAIN issues) :
               \A order \in HashOrders(CategoryKeys(issues)) :
                 LET t == FromIssues([i \in DOMAIN issues |-> issues[p[i]]], order).categories
                 IN  [k \in 1..Len(t) |-> t[k].category]
                        = [k \in 1..Len(categories) |-> categories[k].category]

\* C8's case: a tree just built from a list that names three categories, not in
\* ascending order.
C8_Witness ==
    /\ lastKey = "none"
    /\ Len(issues) >= 3
    /\ Len(categories) >= 3
    /\ issues[1] > issues[2]

\* The rows of the flattened view: a header per category, and a row per issue of
\* each expanded category.
VisibleRows(cats) ==
    {<<k, 0>> : k \in 1..Len(cats)}
      \cup {r \in (1..Len(cats)) \X (1..MaxIssues + 1) :
              cats[r[1]].expanded /\ r[2] <= Len(cats[r[1]].issues)}

\* C9: whatever the expansion flags are, flat_len() is the number of headers plus the
\* number of issues of the expanded categories, by the flags as they are now; two
\* categories of 1 and 2 issues give 5 with both expanded and 4 with the one-issue
\* category collapsed.
C9_FlatLen ==
    /\ FlatLen(categories) = Cardinality(VisibleRows(categories))
    /\ (/\ Len(categories) = 2
        /\ Len(categories[1].issues) = 1
        /\ Len(categories[2].issues) = 2
        /\ categories[2].expanded)
         => FlatLen(categories) = IF categories[1].expanded THEN 5 ELSE 4

\* C9's case: the tree of the example, with the one-issue category collapsed.
C9_Witness ==
    /\ Len(categories) = 2
    /\ Len(categories[1].issues) = 1
    /\ Len(categories[2].issues) = 2
    /\ ~categories[1].expanded
    /\ categories[2].expanded
    /\ FlatLen(categories) = 4

\* C10: Down/j (select_next) adds exactly one to flat_index unless it is already
\* flat_len() - 1 or the tree is empty, and then leaves it; Up/k (select_prev) takes
\* exactly one off unless it is 0, and then leaves it; neither wraps around, and
\* neither changes an expanded flag.
C10_SelectSaturates ==
    [][/\ lastKey' \in {"Down", "j"} =>
            /\ flat_index' = IF Len(categories) = 0
                                 \/ flat_index = FlatLen(categories) - 1
                              THEN flat_index ELSE flat_index + 1
            /\ categories' = categories
       /\ lastKey' \in {"Up", "k"} =>
            /\ flat_index' = IF flat_index = 0 THEN 0 ELSE flat_index - 1
            /\ categories' = categories]_vars

\* C10's case: Down was pressed on the last row of a tree of several rows and the
\* selection stayed there.
C10_Witness ==
    /\ lastKey = "Down"
    /\ FlatLen(categories) >= 3
    /\ flat_index = FlatLen(categories) - 1

----------------------------------------------------------------------------
(* Claims about the Model and update *)

\* The step is update(model, Msg::Key(key)) in the running loop.
KeyPressed(key) ==
    LET r == handle_key(Cur, key, "ok")
    IN  /\ ~should_quit
        /\ lastOp' \in {"update", "clear_error"}
        /\ Cur' = r.model
        /\ redraw' = r.redraw

\* C11: while an error is present, Enter and Escape clear it and touch nothing but
\* the error and the phase; every other key, q, Ctrl+C, the view-switch keys, the
\* navigation keys and the suggestion modal's keys among them, leaves the whole
\* Model as it was.
C11_ErrorModalOwnsKeys ==
    [][\A key \in Keys :
          (error # "None" /\ KeyPressed(key)) =>
             IF Code(key) \in {"Enter", "Esc"}
             THEN /\ error' = "None"
                  /\ [Cur' EXCEPT !.error = error, !.phase = phase] = Cur
             ELSE Cur' = Cur]_vars

\* A key was handled while the error was present and the suggestion modal visible,
\* and the error is still there: update returned false, which no Resize does.
C11_Witness ==
    /\ error # "None"
    /\ suggest_modal.visible
    /\ lastOp = "update"
    /\ ~redraw
    /\ ~should_quit

\* C12: the key that dismisses the error leaves the phase Done if an optimized
\* text exists, otherwise AnalysisDone if the tree has a category, otherwise Ready;
\* the error is then absent and the phase is not Error.
C12_DismissSetsPhase ==
    [][\A key \in {"Enter", "Esc"} :
          (error # "None" /\ KeyPressed(key)) =>
             /\ error' = "None"
             /\ phase' # "Error"
             /\ phase' = IF optimized_prompt # "None" THEN "Done"
                         ELSE IF categories # <<>> THEN "AnalysisDone"
                         ELSE "Ready"]_vars

\* An error was dismissed with issues in the tree and no optimized text.
C12_Witness ==
    /\ lastOp = "clear_error"
    /\ error = "None"
    /\ optimized_prompt = "None"
    /\ categories # <<>>
    /\ phase = "AnalysisDone"

\* The phase after set_error and then clear_error, from the Model as it is.
PhaseAfterErrorPair == clear_error(set_error(Cur)).phase

\* C13 as stated: set_error followed by clear_error restores the prior phase,
\* whichever of Ready, Analyzing, AnalysisDone, Optimizing, Done it was and whatever
\* the tree and the result hold.
C13_PairRestoresPhase ==
    error = "None" => PhaseAfterErrorPair = phase

\* C13: set_error followed by clear_error leaves the phase clear_error rebuilds
\* from the contents; that is the prior phase when the prior phase was Ready, Done,
\* or AnalysisDone with a category in the tree, and it is not the prior phase when
\* that was Analyzing or Optimizing.
C13_PairRestoresRebuildablePhase ==
    error = "None" =>
       /\ (phase \in {"Ready", "Done"} \/ (phase = "AnalysisDone" /\ categories # <<>>))
             => PhaseAfterErrorPair = phase
       /\ phase \in {"Analyzing", "Optimizing"}
             => PhaseAfterErrorPair \in {"Ready", "AnalysisDone", "Done"}

\* An error raised in phase Done was dismissed, and the phase is Done again.
C13_Witness ==
    /\ lastOp = "clear_error"
    /\ error = "None"
    /\ phase = "Done"
    /\ optimized_prompt # "None"

\* C14: with no error and the suggestion modal not visible, q (with any modifier)
\* and Ctrl+C set the quit flag in every view and phase, return no-redraw, and
\* change nothing else: the key does not reach the view's handler, Ctrl+C copies
\* nothing.
C14_QuitKeys ==
    [][\A key \in {"q", "Ctrl+q", "Ctrl+c"} :
          (error = "None" /\ ~suggest_modal.visible /\ KeyPressed(key)) =>
             /\ Cur' = [Cur EXCEPT !.should_quit = TRUE]
             /\ redraw' = FALSE]_vars

\* The quit flag was set in the Diff view by a key that requested no redraw (a save
\* that quits requests one), with results that Ctrl+C could have copied.
C14_Witness ==
    /\ should_quit
    /\ lastOp = "update"
    /\ ~redraw
    /\ current_view = "Diff"
    /\ optimized_prompt # "None"
    /\ status_message = "None"
    /\ error = "None"
    /\ ~suggest_modal.visible

----------------------------------------------------------------------------
(* Claims about the suggestion modal *)

\* s begins with p.
IsPrefix(p, s) == Len(p) <= Len(s) /\ SubSeq(s, 1, Len(p)) = p

\* p occurs in s.
Contains(s, p) ==
    \E i \in 0..(Len(s) - Len(p)) : SubSeq(s, i + 1, i + Len(p)) = p

\* p without the whitespace before its first and after its last other character.
Core(p) ==
    LET idx == {i \in 1..Len(p) : p[i] \notin Whitespace}
    IN  IF idx = {} THEN <<>>
        ELSE SubSeq(p, CHOOSE i \in idx : \A j \in idx : i <= j,
                       CHOOSE i \in idx : \A j \in idx : i >= j)

\* The texts of the templates that occur in s, in the order they occur.
RECURSIVE TemplatesIn(_)
TemplatesIn(s) ==
    IF s = <<>> THEN <<>>
    ELSE (IF \E t \in 1..Len(SuggestionIds) : Head(s) = SuggestionIds[t]
          THEN <<Head(s)>> ELSE <<>>) \o TemplatesIn(Tail(s))

\* The texts of the templates of the suggestions the modal has selected, in list
\* order.
RECURSIVE PickedFrom(_, _)
PickedFrom(suggestions, selections) ==
    IF suggestions = <<>> \/ selections = <<>> THEN <<>>
    ELSE (IF Head(selections) THEN <<SuggestionIds[Head(suggestions)]>> ELSE <<>>)
         \o PickedFrom(Tail(suggestions), Tail(selections))

Picked == PickedFrom(suggest_modal.suggestions, suggest_modal.selections)

\* What is left of s after its first n characters.
After(s, n) == SubSeq(s, n + 1, Len(s))

\* Enter was pressed with the modal visible and no error: the modal is hidden,
\* the key is handled and the tree is as it was; with a selection the new prompt
\* is `start` followed by line breaks and the templates of exactly the selected
\* suggestions in list order, with none the prompt is as it was.
EnterApplied(start) ==
    /\ ~suggest_modal'.visible
    /\ redraw' = TRUE
    /\ categories' = categories
    /\ flat_index' = flat_index
    /\ IF Picked # <<>>
       THEN /\ IsPrefix(start, original_prompt')
            /\ TemplatesIn(After(original_prompt', Len(start))) = Picked
            /\ \A i \in (Len(start) + 1)..Len(original_prompt') :
                  \/ original_prompt'[i] \in Whitespace
                  \/ \E t \in 1..Len(SuggestionIds) :
                        original_prompt'[i] = SuggestionIds[t]
       ELSE original_prompt' = original_prompt

\* C15 as stated: Enter in the visible modal hides it and, with a selection,
\* replaces the prompt by the original prompt followed by the selected templates
\* in list order; with no selection the prompt is unchanged; the key is handled
\* and toggles no category.
C15_EnterAppliesToOriginal ==
    [][(error = "None" /\ suggest_modal.visible /\ KeyPressed("Enter"))
          => EnterApplied(original_prompt)]_vars

\* C15: Enter in the visible modal hides it and, with a selection, replaces the
\* prompt by the original prompt without its leading and trailing whitespace,
\* followed by the selected templates in list order; with no selection the prompt
\* is unchanged; the key is handled and toggles no category.
C15_EnterAppliesToTrimmed ==
    [][(error = "None" /\ suggest_modal.visible /\ KeyPressed("Enter"))
          => EnterApplied(Core(original_prompt))]_vars

\* Enter applied one of several suggestions: the modal is hidden, one suggestion
\* is selected and another is not, and the prompt holds one template.
C15_Witness ==
    /\ lastOp = "update"
    /\ ~suggest_modal.visible
    /\ Len(Picked) = 1
    /\ Len(suggest_modal.suggestions) >= 2
    /\ TemplatesIn(original_prompt) = Picked

\* C16: Escape in the visible modal hides it without applying: the prompt is
\* unchanged whatever is selected, and so is the current view; the key does not
\* reach the view's handler.
C16_EscDismisses ==
    [][(error = "None" /\ suggest_modal.visible /\ KeyPressed("Esc")) =>
          /\ ~suggest_modal'.visible
          /\ original_prompt' = original_prompt
          /\ current_view' = current_view
          /\ Cur' = [Cur EXCEPT !.suggest_modal.visible = FALSE]]_vars

\* The modal was hidden with a suggestion selected and the prompt holds no
\* template: Escape hid it, Enter would have applied the selection.
C16_Witness ==
    /\ lastOp = "update"
    /\ ~suggest_modal.visible
    /\ Picked # <<>>
    /\ TemplatesIn(original_prompt) = <<>>

\* The modal's vectors have one length, and the cursor is on a suggestion when
\* there is one.
ModalInv ==
    /\ Len(suggest_modal.selections) = Len(suggest_modal.suggestions)
    /\ suggest_modal.suggestions # <<>> =>
          (0 <= suggest_modal.cursor
           /\ suggest_modal.cursor <= Len(suggest_modal.suggestions) - 1)

\* C17: in every state of the modal reached from from_issues by its keys the
\* selection vector is as long as the suggestion list and the cursor is within
\* [0, len-1]; a cursor move changes the cursor by one or, at either end, not at
\* all, and Space flips the entry at the cursor and no other.
C17_ModalInvariant ==
    /\ []ModalInv
    /\ [][\A key \in Keys :
            (error = "None" /\ suggest_modal.visible /\ KeyPressed(key)) =>
               LET old == suggest_modal
                   new == suggest_modal'
                   last == Len(old.suggestions) - 1
               IN  /\ Code(key) \in {"Up", "k"} =>
                        /\ new.cursor = IF old.cursor = 0 THEN 0 ELSE old.cursor - 1
                        /\ new.selections = old.selections
                   /\ Code(key) \in {"Down", "j"} =>
                        /\ new.cursor = IF old.cursor = last THEN last
                                        ELSE old.cursor + 1
                        /\ new.selections = old.selections
                   /\ Code(key) = "Space" =>
                        /\ new.cursor = old.cursor
                        /\ \A i \in 1..Len(old.selections) :
                              new.selections[i] =
                                 IF i = old.cursor + 1 THEN ~old.selections[i]
                                 ELSE old.selections[i]]_vars

\* The cursor is on the last of several suggestions, and that one alone is
\* selected.
C17_Witness ==
    /\ suggest_modal.visible
    /\ suggest_modal.cursor >= 1
    /\ suggest_modal.cursor = Len(suggest_modal.suggestions) - 1
    /\ \A i \in 1..Len(suggest_modal.selections) :
          suggest_modal.selections[i] = (i = suggest_modal.cursor + 1)

\* The trigger ids of the list, EXP005 before EXP006.
TriggersOf(ids) ==
    (IF \E i \in 1..Len(ids) : ids[i] = "EXP005" THEN <<"EXP005">> ELSE <<>>)
    \o (IF \E i \in 1..Len(ids) : ids[i] = "EXP006" THEN <<"EXP006">> ELSE <<>>)

\* C18: the modal from_issues builds from a list is visible exactly when the list
\* holds EXP005 or EXP006; then it has suggestions, no id twice, nothing selected,
\* and the trigger ids recorded; otherwise it is hidden and has no suggestion.
\* set_issues puts that modal into the Model under the same condition.
C18_FromIssuesVisible ==
    lastOp = "set_issues" =>
       LET built == from_issues(issue_ids)
           trigger == \E i \in 1..Len(issue_ids) : issue_ids[i] \in {"EXP005", "EXP006"}
       IN  /\ built.visible <=> trigger
           /\ built.visible =>
                /\ built.suggestions # <<>>
                /\ \A i, j \in 1..Len(built.suggestions) :
                      i # j => built.suggestions[i] # built.suggestions[j]
                /\ Len(built.selections) = Len(built.suggestions)
                /\ \A i \in 1..Len(built.selections) : ~built.selections[i]
                /\ built.trigger_issues = TriggersOf(issue_ids)
           /\ ~built.visible => built.suggestions = <<>>
           /\ suggest_modal.visible <=> trigger
           /\ trigger => suggest_modal = built

\* set_issues was given a list with both trigger ids and the modal is up.
C18_Witness ==
    /\ lastOp = "set_issues"
    /\ suggest_modal.visible
    /\ suggest_modal.trigger_issues = <<"EXP005", "EXP006">>
    /\ Len(suggest_modal.suggestions) >= 2

\* What apply_to_prompt returns for the modal's selection and the prompt.
Applied == apply_to_prompt(suggest_modal, original_prompt)

\* C19 as stated: for every prompt and every non-empty selection the string
\* apply_to_prompt returns contains the prompt and is strictly longer; with an
\* empty selection it is the prompt.
C19_StrictSuperset ==
    IF Picked # <<>>
    THEN Contains(Applied, original_prompt) /\ Len(Applied) > Len(original_prompt)
    ELSE Applied = original_prompt

\* C19: for every prompt and every non-empty selection the string apply_to_prompt
\* returns contains the prompt without its leading and trailing whitespace and is
\* strictly longer than that; it contains the prompt itself, and is longer than
\* it, when the prompt has no such whitespace.  With an empty selection it is the
\* prompt.
C19_SupersetOfTrimmed ==
    IF Picked # <<>>
    THEN /\ Contains(Applied, Core(original_prompt))
         /\ Len(Applied) > Len(Core(original_prompt))
         /\ Core(original_prompt) = original_prompt =>
               (Contains(Applied, original_prompt)
                /\ Len(Applied) > Len(original_prompt))
    ELSE Applied = original_prompt

\* Two suggestions were applied to the prompt.
C19_Witness ==
    /\ lastOp = "update"
    /\ ~suggest_modal.visible
    /\ Len(Picked) = 2
    /\ TemplatesIn(original_prompt) = Picked
    /\ original_prompt[1] = "x"

----------------------------------------------------------------------------
(* Claims about Resize *)

\* The step is update(Msg::Resize(width, height)).
Resized(width, height) ==
    LET r == update_resize(Cur, width, height)
    IN  /\ ~should_quit
        /\ lastOp' = "update"
        /\ Cur' = r.model
        /\ redraw' = r.redraw

\* C20: Resize(w, h), in every view and phase and with or without a modal, sets
\* the stored width and height to w and h, returns redraw = true and changes
\* nothing else in the Model.
C20_ResizeFrame ==
    [][\A size \in Sizes :
          Resized(size[1], size[2]) =>
             /\ terminal_width' = size[1]
             /\ terminal_height' = size[2]
             /\ redraw' = TRUE
             /\ Cur' = [Cur EXCEPT !.terminal_width = size[1],
                                   !.terminal_height = size[2]]
             /\ issues' = issues
             /\ should_quit' = should_quit]_vars

\* The terminal was resized while the error modal was up: the modal swallows
\* every key but the two that dismiss it, so the redraw is the resize's.
C20_Witness ==
    /\ lastOp = "update"
    /\ error # "None"
    /\ redraw
    /\ terminal_width = 100
    /\ terminal_height = 50

----------------------------------------------------------------------------
(* Claims about Tick, the status message and the optimization result *)

\* The step is update(Msg::Tick).
Ticked == lastOp' = "tick" /\ now' = now

\* The status message's expiry is set and the clock has reached it.
Expired == \E clear_at \in status_clear_at : now >= clear_at

\* C21: a Tick changes nothing in the Model but the status-message pair: with an
\* expiry set and reached it clears the pair and returns redraw = true, otherwise
\* (no status message included) it leaves the Model as it is and returns
\* redraw = false.
C21_TickFrame ==
    [][Ticked =>
          IF Expired
          THEN /\ Cur' = [Cur EXCEPT !.status_message = "None",
                                     !.status_clear_at = {}]
               /\ redraw' = TRUE
          ELSE /\ Cur' = Cur
               /\ redraw' = FALSE]_vars

\* A Tick cleared a status message that a copy had set three seconds before or
\* earlier.
C21_Witness ==
    /\ lastOp = "tick"
    /\ redraw
    /\ status_message = "None"
    /\ status_clear_at = {}
    /\ optimized_prompt # "None"
    /\ now >= 3

\* The seconds a status message is set for (update.rs:207, 210, 231, 238, 275).
DurationOf(message) == IF message = "Copied to clipboard" THEN 3 ELSE 5

\* C22: a status message set with duration D at time t is there right after it
\* is set, with expiry t + D, and after every Tick at a time before t + D; after
\* a Tick at a time later than t + D the message and the expiry are both gone.
C22_StatusLifetime ==
    /\ [](status_message # "None" <=> status_clear_at # {})
    /\ [][(status_clear_at' # status_clear_at /\ status_clear_at' # {}) =>
             /\ status_message' # "None"
             /\ status_clear_at' = {now' + DurationOf(status_message')}]_vars
    /\ [][(Ticked /\ status_clear_at # {}) =>
             \A clear_at \in status_clear_at :
                /\ now < clear_at =>
                      /\ status_message' = status_message
                      /\ status_message' # "None"
                      /\ status_clear_at' = status_clear_at
                /\ now > clear_at =>
                      /\ status_message' = "None"
                      /\ status_clear_at' = {}]_vars

\* A status message set for five seconds is there after a Tick four seconds later.
C22_Witness ==
    /\ lastOp = "tick"
    /\ status_message # "None"
    /\ DurationOf(status_message) = 5
    /\ status_clear_at = {now + 1}

\* C23: the optimization output is never half there: set_optimization_result
\* stores the text and the statistics in one step, with phase Done and view Diff,
\* and in every state reached from Model::new by set_issues,
\* set_optimization_result, set_error, clear_error and the Key, Resize, Tick and
\* Quit events the statistics are there exactly when the text is.
C23_ResultAtomic ==
    /\ [](stats # "None" <=> optimized_prompt # "None")
    /\ [][lastOp' = "set_optimization_result" =>
             /\ optimized_prompt' # "None"
             /\ stats' # "None"
             /\ phase' = "Done"
             /\ current_view' = "Diff"
             /\ Cur' = [Cur EXCEPT !.optimized_prompt = optimized_prompt',
                                   !.stats = stats',
                                   !.phase = "Done",
                                   !.current_view = "Diff"]]_vars

\* The result was stored, the view was left for Main and a Tick was handled: the
\* text and the statistics are both still there.
C23_Witness ==
    /\ lastOp = "tick"
    /\ optimized_prompt # "None"
    /\ stats # "None"
    /\ phase = "Done"
    /\ current_view = "Main"
    /\ should_quit = FALSE
    /\ now = 0

\* C26: with no optimized text the keys d, c, s, e and r in the Main view leave
\* the Model as it is (the view stays Main, no status message is set, the quit
\* flag is untouched) and request no redraw; while the optimized text is absent
\* no copy or save has run: no status message is set and the view is not Diff.
C26_ResultKeysGuarded ==
    /\ [](optimized_prompt = "None" =>
             /\ status_message = "None"
             /\ status_clear_at = {}
             /\ current_view # "Diff")
    /\ [][\A key \in {"d", "c", "s", "e", "r"} :
            (error = "None" /\ current_view = "Main" /\ optimized_prompt = "None"
             /\ KeyPressed(key)) =>
               /\ Cur' = Cur
               /\ redraw' = FALSE]_vars

\* The analysis is done without an optimization and keys were pressed in the Main
\* view: nothing was copied or saved and the loop runs on.
C26_Witness ==
    /\ lastOp = "update"
    /\ phase = "AnalysisDone"
    /\ optimized_prompt = "None"
    /\ current_view = "Main"
    /\ error = "None"
    /\ ~redraw
    /\ ~should_quit
    /\ status_message = "None"

\* The step is the key press `key` whose call of the clipboard or the file system
\* fails as io says.
KeyFailed(key, io) ==
    LET r == handle_key(Cur, key, io)
    IN  /\ ~should_quit
        /\ lastOp' = "update"
        /\ now' = now
        /\ Cur' = r.model
        /\ redraw' = r.redraw

\* The failures of a copy and of a save: the key, what fails, and the message.
UserActionFailures ==
    {<<"c", "copy_err", "Copy failed">>,
     <<"s", "mkdir_err", "Failed to create directory">>,
     <<"s", "write_err", "Save failed">>}

\* C28: a failed copy, and a save that fails at the directory or at the write,
\* leave a status message with an expiry, do not set the quit flag, leave the
\* optimized text, the view and the phase as they were and request a redraw.
C28_FailedActionRecoverable ==
    [][\A f \in UserActionFailures :
          (error = "None" /\ ~suggest_modal.visible /\ optimized_prompt # "None"
           /\ current_view \in {"Main", "Diff"} /\ KeyFailed(f[1], f[2])) =>
             /\ status_message' = f[3]
             /\ status_clear_at' = {now + 5}
             /\ should_quit' = FALSE
             /\ optimized_prompt' = optimized_prompt
             /\ current_view' = current_view
             /\ phase' = phase
             /\ redraw' = TRUE
             /\ Cur' = [Cur EXCEPT !.status_message = f[3],
                                   !.status_clear_at = {now + 5}]]_vars

\* A copy failed in the Diff view: the message is up and the loop runs on.
C28_Witness ==
    /\ lastOp = "update"
    /\ status_message = "Copy failed"
    /\ status_clear_at = {now + 5}
    /\ current_view = "Diff"
    /\ phase = "Done"
    /\ redraw
    /\ ~should_quit

----------------------------------------------------------------------------
(* Claims about render *)

\* The step is a call of render that drew a frame.
Rendered == frame' # frame

\* The three full layouts.
FullLayouts == {"Main", "Diff", "Help"}

\* The base layouts a frame holds, in drawing order.
BaseLayouts(drawn) ==
    SelectSeq(drawn, LAMBDA layer : layer \in FullLayouts \cup {"Minimal"})

\* C24: on a frame narrower than 60 columns or shorter than 15 rows render draws
\* the minimal layout whatever the view is, and none of the three full layouts;
\* on a frame at or above both thresholds it draws the full layout of the current
\* view and no other.
C24_MinimalBelowThreshold ==
    [][Rendered =>
          IF frame'.area[1] < 60 \/ frame'.area[2] < 15
          THEN BaseLayouts(frame'.drawn) = <<"Minimal">>
          ELSE BaseLayouts(frame'.drawn) = <<current_view>>]_vars

\* A frame one column too narrow was drawn while the Help view was current.
C24_Witness ==
    /\ frame.area = <<59, 15>>
    /\ frame.drawn = <<"Minimal">>
    /\ current_view = "Help"
    /\ lastOp = "update"

\* C25: while an error is active every render draws the error overlay as its last
\* drawing step, on top of whichever base layout it drew: Main, Diff, Help or the
\* minimal layout of a small terminal.
C25_ErrorOverlayLast ==
    [][(Rendered /\ error # "None") =>
          /\ Len(frame'.drawn) >= 2
          /\ frame'.drawn[Len(frame'.drawn)] = "error_modal"
          /\ frame'.drawn[1] \in FullLayouts \cup {"Minimal"}]_vars

----------------------------------------------------------------------------
(* Claims about the Help key, detect_render_mode and the modal's keys *)

\* C27: with no modal active the ? key toggles the Help view in every view:
\* pressed in Main or Diff it makes Help the current view, pressed in Help it
\* leaves Help.
C27_HelpToggleGlobal ==
    [][(error = "None" /\ ~suggest_modal.visible /\ KeyPressed("?")) =>
          IF current_view = "Help"
          THEN current_view' # "Help"
          ELSE current_view' = "Help"]_vars

\* The mode the precedence JSON, Quiet, Plain, Interactive, Linear gives.
ByPrecedence(a) ==
    CASE a.format_json -> "Json"
      [] ~a.format_json /\ a.quiet -> "Quiet"
      [] ~a.format_json /\ ~a.quiet /\ ~a.is_tty -> "Plain"
      [] ~a.format_json /\ ~a.quiet /\ a.is_tty /\ a.interactive -> "Interactive"
      [] ~a.format_json /\ ~a.quiet /\ a.is_tty /\ ~a.interactive -> "Linear"

\* C29: detect_render_mode resolves its four inputs by strict precedence: JSON if
\* format_json, else Quiet if quiet, else Plain if not a TTY, else Interactive if
\* interactive, else Linear; so Interactive is never chosen when the output is
\* no TTY or when JSON or quiet is asked for.
C29_RenderModePrecedence ==
    mode # "unset" =>
       /\ mode = ByPrecedence(args)
       /\ mode = "Interactive" =>
             (args.is_tty /\ ~args.format_json /\ ~args.quiet /\ args.interactive)

\* --interactive was given with the output piped: the mode is Plain.
C29_Witness ==
    /\ mode = "Plain"
    /\ args.interactive
    /\ ~args.is_tty
    /\ calls >= 2

\* The keys of the modal's key map that neither apply nor dismiss.
ModalOwnKeys == {"Up", "Down", "k", "j", "Space", "a", "n"}

\* C30: while the suggestion modal is visible and no error is active, each of Up,
\* Down, k, j, Space, a and n is handled by the modal alone: the modal stays
\* visible, only its cursor or its selection vector may change, nothing else in
\* the Model changes, and a redraw is requested.
C30_ModalKeysFrame ==
    [][\A key \in ModalOwnKeys :
          (error = "None" /\ suggest_modal.visible /\ KeyPressed(key)) =>
             /\ suggest_modal'.visible
             /\ Cur' = [Cur EXCEPT
                           !.suggest_modal.cursor = suggest_modal'.cursor,
                           !.suggest_modal.selections = suggest_modal'.selections]
             /\ issues' = issues
             /\ redraw' = TRUE]_vars

\* The modal is up with its cursor moved down and every suggestion selected, and
\* the tree's selection is where set_issues put it.
C30_Witness ==
    /\ lastOp = "update"
    /\ suggest_modal.visible
    /\ suggest_modal.cursor >= 1
    /\ \A i \in 1..Len(suggest_modal.selections) : suggest_modal.selections[i]
    /\ flat_index = 0
    /\ current_view = "Main"
    /\ redraw

----------------------------------------------------------------------------
(* Claims about the precedence of the modals *)

\* C31: while the suggestion modal is visible it owns the keyboard ahead of the
\* base view: until Enter or Esc dismisses it no key changes the current view, the
\* tree's selection or expansion, the scroll offset or the quit flag, or runs a
\* copy or a save.
C31_ModalOwnsKeyboard ==
    [][\A key \in Keys :
          (error = "None" /\ suggest_modal.visible /\ Code(key) \notin {"Enter", "Esc"}
           /\ KeyPressed(key)) =>
             /\ current_view' = current_view
             /\ flat_index' = flat_index
             /\ categories' = categories
             /\ scroll_offset' = scroll_offset
             /\ should_quit' = should_quit
             /\ status_message' = status_message
             /\ status_clear_at' = status_clear_at]_vars

\* C32: with an error active and the suggestion modal visible, Enter or Esc
\* dismisses the error alone: the modal stays visible with its cursor and its
\* selections as they were and the prompt is unchanged; no key reaches the modal
\* while the error is active.
C32_ErrorBeforeSuggestion ==
    [][\A key \in Keys :
          (error # "None" /\ suggest_modal.visible /\ KeyPressed(key)) =>
             /\ suggest_modal' = suggest_modal
             /\ original_prompt' = original_prompt
             /\ Code(key) \in {"Enter", "Esc"} =>
                   /\ error' = "None"
                   /\ Cur' = [Cur EXCEPT !.error = "None", !.phase = phase']
             /\ Code(key) \notin {"Enter", "Esc"} => Cur' = Cur]_vars

\* The error was dismissed over a suggestion modal that is still up, nothing
\* selected, the prompt as main.rs stored it.
C32_Witness ==
    /\ lastOp = "clear_error"
    /\ error = "None"
    /\ suggest_modal.visible
    /\ suggest_modal.cursor = 0
    /\ \A i \in 1..Len(suggest_modal.selections) : ~suggest_modal.selections[i]
    /\ original_prompt = <<"x">>
    /\ redraw

----------------------------------------------------------------------------
(* Claims about feedback and the overlays *)

\* C35: every copy (c) and every save (s) taken while the optimization result
\* exists, whether it succeeds or fails, leaves the Model with a status message
\* and an expiry.
C35_ActionFeedback ==
    [][\A key \in {"c", "s"} : \A io \in IoOutcomes :
          (error = "None" /\ ~suggest_modal.visible /\ optimized_prompt # "None"
           /\ current_view \in {"Main", "Diff"} /\ KeyFailed(key, io)) =>
             /\ status_message' # "None"
             /\ status_clear_at' # {}]_vars

\* C36: a modal that owns the keyboard is drawn over the base view: every render
\* made while the suggestion modal is visible and no error is active draws the
\* suggestion modal last, on top of the base layout.
C36_SuggestOverlayDrawn ==
    [][(Rendered /\ suggest_modal.visible /\ error = "None") =>
          /\ Len(frame'.drawn) >= 2
          /\ frame'.drawn[Len(frame'.drawn)] = "suggest_modal"
          /\ frame'.drawn[1] \in FullLayouts \cup {"Minimal"}]_vars

----------------------------------------------------------------------------
(* Claims about concurrent restore() and the order of run_interactive *)

\* The contexts whose call of restore() took the flag and has not finished the
\* leave sequence.
Leaving == {t \in Threads : pc[t] \in {"restore_disable", "restore_leave"}}

\* The leave sequence is issued by one context at most, counting the one about to
\* issue it.
AtMostOneLeaves ==
    Cardinality({t \in Threads : pc[t] = "restore_disable"}) + leaveCount <= 1

\* C37: when restore() is entered from two contexts at once after a successful
\* init(), the swap of the flag lets exactly one of them perform the leave
\* sequence and the other makes no terminal call: the sequence is never executed
\* twice, and it is never skipped by both, so no process ends with the flag
\* taken and the sequence not performed.
C37_ExactlyOneLeaves ==
    /\ AtMostOneLeaves
    /\ exitStatus # "running" => Leaving = {}

\* The panic hook and the interrupt handler are installed.
SafetyInstalled == hookInstalled /\ pc["sig"] # "off"

\* C38: in run_interactive the safety net is in place before the terminal's mode
\* changes: the panic hook and the interrupt handler are installed and the
\* TerminalGuard exists before raw mode is enabled or the alternate screen is
\* entered, and when installing the handlers fails the function returns the error
\* without entering either.
C38_SafetyNetFirst ==
    /\ []((rawMode \/ altScreen \/ TERMINAL_RAW) => SafetyInstalled)
    /\ [][((rawMode' /\ ~rawMode) \/ (altScreen' /\ ~altScreen)) =>
             (SafetyInstalled /\ guardLive)]_vars
    /\ [](pc["sig"] = "off" =>
             /\ ~rawMode /\ ~altScreen /\ ~TERMINAL_RAW
             /\ pc["main"] \in {"install_panic_hook", "install_signal_handlers",
                                "returned"}
             /\ pc["main"] = "returned" => result = "err")

\* Raw mode has just been enabled: the hook and the handler are installed and the
\* guard exists.
C38_Witness ==
    /\ pc["main"] = "store_flag"
    /\ rawMode
    /\ ~TERMINAL_RAW
    /\ hookInstalled
    /\ pc["sig"] = "wait"
    /\ guardLive

\* C34: once handling an event has set the quit flag, run_interactive leaves the
\* loop before it draws another frame or polls another event, and returns Ok; so
\* the loop ends after a quit key has been handled, unless the process is ended
\* first; the flag is set by the handling of an event alone, never while a frame
\* is drawn.
C34_QuitLeavesLoop ==
    /\ [](should_quit => pc["main"] \notin {"draw", "poll", "read", "update"})
    /\ [][(should_quit' /\ ~should_quit) =>
             (pc["main"] = "update" /\ pc'["main"] = "check_quit")]_vars
    /\ []((should_quit /\ pc["main"] = "returned") => result = "ok")
    /\ should_quit ~> ((pc["main"] = "returned" /\ result = "ok")
                       \/ exitStatus # "running")

\* A quit key was handled and run_interactive has returned Ok, the terminal
\* restored and the process still running.
C34_Witness ==
    /\ should_quit
    /\ pc["main"] = "returned"
    /\ result = "ok"
    /\ exitStatus = "running"
    /\ ~rawMode
    /\ ~altScreen

----------------------------------------------------------------------------
(* Claims about the event loop and the status message *)

\* C33: in the running event loop a status message does not outlive its expiry:
\* under a loop that keeps cycling, with or without further input, a status
\* message whose expiry time has passed is eventually cleared, unless a later
\* action has put a message with a later expiry in its place or the loop has
\* ended.
C33_StatusExpiresInLoop ==
    (status_message # "None" /\ Expired) ~> (~Expired \/ should_quit)

----------------------------------------------------------------------------
(* Claims about the views and the phase *)

\* C39: the Diff view is current only when the optimization result exists, in
\* every state reached from Model::new by set_issues, set_optimization_result,
\* set_error, clear_error and the keys; and a step that leaves Help lands in Main.
C39_DiffNeedsResult ==
    /\ [](current_view = "Diff" => optimized_prompt # "None")
    /\ [][(current_view = "Help" /\ current_view' # "Help") =>
             current_view' = "Main"]_vars

\* Help is open over a Model that holds a result: the Diff view was left for Main
\* and Help opened from there.
C39_Witness ==
    /\ lastOp = "update"
    /\ current_view = "Help"
    /\ optimized_prompt # "None"
    /\ error = "None"
    /\ redraw

==========================================================================
